---------------------------- MODULE Spec2Model ----------------------------
(***************************************************************************)
(* A model of puddle, the LinMot drive control client: the drive state     *)
(* decoder (linmot/mci.rs), the stroke motion planner, the control-flag    *)
(* state machine of DriveConnection::loop_tick and the cyclic loop of      *)
(* DriveConnection::start_loop with its circuit breaker (main.rs).         *)
(*                                                                         *)
(* Time is measured in whole ticks of an abstract clock.  An Instant is    *)
(* only ever compared with another Instant, so every Instant is kept as    *)
(* its signed distance from the Instant at which the current loop          *)
(* iteration starts (that Instant is 0).                                   *)
(***************************************************************************)
EXTENDS Integers, Sequences, FiniteSets, TLC

\* ------------------------------------------------------------------------
\* Bounds of the model.
\* ------------------------------------------------------------------------

\* --loop-interval and --report-interval, in clock ticks.
LoopInterval == 2
ReportInterval == 3
\* One loop_tick takes 0..MaxTickDuration clock ticks (it overruns the
\* deadline when it takes more than the time left to next_tick).
MaxTickDuration == 3
\* thread::sleep may return up to MaxOversleep clock ticks late.
MaxOversleep == 1
\* Where the timing is not varied, loop_tick takes TickDuration clock ticks
\* and the sleep is exact.
TickDuration == 1

\* ------------------------------------------------------------------------
\* Integer helpers.
\* ------------------------------------------------------------------------

Min(a, b) == IF a <= b THEN a ELSE b

Max(a, b) == IF a >= b THEN a ELSE b

\* i32::MAX and i32::MIN.
MaxI32 == 2147483647

MinI32 == -MaxI32 - 1

\* a + b and a - b leave the i32 range (a panic with overflow checks on, a
\* wrap without).  Written so that no intermediate value leaves the range.
AddOverflows(a, b) ==
    \/ b > 0 /\ a > MaxI32 - b
    \/ b < 0 /\ a < MinI32 - b

SubOverflows(a, b) ==
    \/ b < 0 /\ a > MaxI32 + b
    \/ b > 0 /\ a < MinI32 + b

\* Two's complement wrapping a + b of i32.
WrappingAdd(a, b) ==
    IF b > 0 /\ a > MaxI32 - b THEN ((a - MaxI32) + b - 1) + MinI32
    ELSE IF b < 0 /\ a < MinI32 - b THEN ((a - MinI32) + b + 1) + MaxI32
    ELSE a + b

\* Two's complement wrapping a - b of i32.
WrappingSub(a, b) ==
    IF b < 0 /\ a > MaxI32 + b THEN ((a - MaxI32) - (b + 1)) + MinI32
    ELSE IF b > 0 /\ a < MinI32 + b THEN ((a - MinI32) - b + 1) + MaxI32
    ELSE a - b

\* A float `as i32`: the value saturates at the ends of the range.
SaturateI32(x) == IF x > MaxI32 THEN MaxI32 ELSE IF x < MinI32 THEN MinI32 ELSE x

\* ------------------------------------------------------------------------
\* Physical units (linmot/mci/units.rs).  A console value is a decimal
\* number; it is kept as the integer count of its 1e-5 steps, so 1.0 is
\* InputOne.
\* ------------------------------------------------------------------------

InputOne == 10 ^ 5

\* Integer division rounding toward zero, as a float-to-integer cast does.
TruncDiv(a, b) == IF a >= 0 THEN a \div b ELSE -((-a) \div b)

\* Position(mm * 10_000): 0.1 um per unit.
PositionFromMillimeters(mm) == mm * 10000

\* Position((mm * 10_000f64) as i32).
PositionFromMillimetersF64(v) == SaturateI32(TruncDiv(v, 10))

\* Velocity(m_per_s * 1_000_000): 1 um/s per unit.
VelocityFromMetersPerSecond(m) == m * 1000000

\* Velocity(mm_per_s * 10_000).
VelocityFromMillimetersPerSecond(mm) == mm * 10000

\* Velocity((m_per_s * 1_000_000f64) as i32).
VelocityFromMetersPerSecondF64(v) ==
    IF v > MaxI32 \div 10 THEN MaxI32
    ELSE IF v < -(MaxI32 \div 10) THEN MinI32
    ELSE v * 10

\* Acceleration(m_per_s2 * 100_000): 10 um/s^2 per unit.
AccelerationFromMetersPerSecondSquared(m) == m * 100000

\* Acceleration((m_per_s2 * 100_000f64) as i32).
AccelerationFromMetersPerSecondSquaredF64(v) == SaturateI32(v)

\* ------------------------------------------------------------------------
\* Drive state (linmot/mci.rs).
\* ------------------------------------------------------------------------

\* Option<T>: None is the empty sequence, Some(x) the sequence of x alone.
None == << >>

Some(x) == << x >>

IsSome(o) == o # None

\* The value of an Option that holds one.
Unwrap(o) == o[1]

\* impl From<u16> for ErrorCode: a named code is the sequence of its name
\* alone, an unmapped one is Unknown with the raw code.
ErrorCodeFrom(e) ==
    CASE e = 0 -> << "NoError" >>
      [] e = 1 -> << "LogicSupplyTooLow" >>
      [] e = 2 -> << "LogicSupplyTooHigh" >>
      [] e = 3 -> << "MotorSupplyTooLow" >>
      [] e = 4 -> << "MotorSupplyTooHigh" >>
      [] e = 7 -> << "MinPositionUndershot" >>
      [] e = 8 -> << "MaxPositionOvershot" >>
      [] e = 11 -> << "PositionLagAlwaysTooBig" >>
      [] e = 32 -> << "MotorHotSensor" >>
      [] e = 34 -> << "MotorSliderMissing" >>
      [] e = 35 -> << "MotorShortTimeOverload" >>
      [] e = 69 -> << "MotorCommunicationLost" >>
      [] e = 128 -> << "NotHomed" >>
      [] e = 129 -> << "UnknownMotionCommand" >>
      [] e = 130 -> << "PvtBufferOverflow" >>
      [] e = 131 -> << "PvtBufferUnderflow" >>
      [] e = 132 -> << "PvtControllerTooFast" >>
      [] e = 133 -> << "PvtControllerTooSlow" >>
      [] e = 134 -> << "MotionCommandInWrongState" >>
      [] OTHER -> <<"Unknown", e>>

\* A faulty bit test that looks one bit too high.
BitSetOneHigher(b, bit) == (b \div (2 ^ (bit + 1))) % 2 = 1

\* Bit `bit` of the byte b is set.
BitSet(b, bit) == (b \div (2 ^ bit)) % 2 = 1

\* A State value.  Every variant is a record with the same fields; the
\* fields a variant does not carry are 0 or FALSE.
MkState(tag, code, count, eh, ma, itp, homed, finished, main, sub) ==
    [tag |-> tag, error_code |-> code, motion_command_count |-> count,
     event_handler |-> eh, motion_active |-> ma, in_target_position |-> itp,
     homed |-> homed, finished |-> finished, main_state |-> main, sub_state |-> sub]

PlainState(tag) == MkState(tag, None, 0, FALSE, FALSE, FALSE, FALSE, FALSE, 0, 0)

ErrorState(tag, sub_state) ==
    MkState(tag, ErrorCodeFrom(sub_state), 0, FALSE, FALSE, FALSE, FALSE, FALSE, 0, 0)

FinishedState(tag, sub_state) ==
    MkState(tag, None, 0, FALSE, FALSE, FALSE, FALSE, sub_state = 15, 0, 0)

\* impl WireRead for State: the state decoded from the bytes (sub_state,
\* main_state).
StateFromWire(sub_state, main_state) ==
    CASE main_state = 0 -> PlainState("NotReadyToSwitchOn")
      [] main_state = 1 -> PlainState("SwitchOnDisabled")
      [] main_state = 2 -> PlainState("ReadyToSwitchOn")
      [] main_state = 3 -> ErrorState("SetupError", sub_state)
      [] main_state = 4 -> ErrorState("Error", sub_state)
      [] main_state = 5 -> PlainState("HardwareTests")
      [] main_state = 6 -> PlainState("ReadyToOperate")
      [] main_state = 8 ->
            MkState("OperationEnabled", None, sub_state % 16,
                    BitSet(sub_state, 4), BitSet(sub_state, 5),
                    BitSet(sub_state, 6), BitSet(sub_state, 7), FALSE, 0, 0)
      [] main_state = 9 -> FinishedState("Homing", sub_state)
      [] main_state = 10 -> FinishedState("ClearanceCheck", sub_state)
      [] main_state = 11 -> FinishedState("GoingToInitialPosition", sub_state)
      [] main_state = 12 -> PlainState("Aborting")
      [] main_state = 13 -> PlainState("Freezing")
      [] main_state = 14 -> PlainState("QuickStop")
      [] main_state = 15 -> FinishedState("GoingToPosition", sub_state)
      [] main_state = 16 -> FinishedState("JoggingPositive", sub_state)
      [] main_state = 17 -> FinishedState("JoggingNegative", sub_state)
      [] main_state = 18 -> PlainState("Linearizing")
      [] main_state = 19 -> PlainState("PhaseSearch")
      [] main_state = 20 -> PlainState("SpecialMode")
      [] main_state = 21 -> PlainState("BrakeDelay")
      [] OTHER ->
            MkState("Unknown", None, 0, FALSE, FALSE, FALSE, FALSE, FALSE,
                    main_state, sub_state)


\* ------------------------------------------------------------------------
\* Stroke parameters and the console (main.rs).
\* ------------------------------------------------------------------------

\* StrokeParams::new.
StrokeParamsNew ==
    [enabled |-> FALSE, stopped |-> FALSE,
     start |-> PositionFromMillimeters(0),
     end |-> PositionFromMillimeters(0),
     direction_change_tolerance |-> PositionFromMillimeters(1),
     forwards_velocity |-> VelocityFromMetersPerSecond(1),
     forwards_acceleration |-> AccelerationFromMetersPerSecondSquared(1),
     forwards_deceleration |-> AccelerationFromMetersPerSecondSquared(1),
     backwards_velocity |-> VelocityFromMetersPerSecond(1),
     backwards_acceleration |-> AccelerationFromMetersPerSecondSquared(1),
     backwards_deceleration |-> AccelerationFromMetersPerSecondSquared(1)]

\* The commands of run_input_loop that change the parameters.
ConsoleCommands ==
    {"p", "f", "r", "s", "e", "sl", "el", "t", "v", "a",
     "fv", "fa", "fd", "bv", "ba", "bd"}

\* The match of run_input_loop: the parameters after the command `command`
\* with the value v, made under the StrokeParams lock.
ApplyConsoleCommand(sp, command, v) ==
    CASE command = "p" -> [sp EXCEPT !.enabled = ~sp.enabled]
      [] command = "f" -> [sp EXCEPT !.stopped = ~sp.stopped]
      [] command = "r" ->
            [StrokeParamsNew EXCEPT !.enabled = sp.enabled, !.stopped = sp.stopped]
      [] command = "s" -> [sp EXCEPT !.start = PositionFromMillimetersF64(v)]
      [] command = "e" -> [sp EXCEPT !.end = PositionFromMillimetersF64(v)]
      [] command = "sl" ->
            [sp EXCEPT !.end = WrappingAdd(sp.start, PositionFromMillimetersF64(v))]
      [] command = "el" ->
            [sp EXCEPT !.start = WrappingSub(sp.end, PositionFromMillimetersF64(v))]
      [] command = "t" ->
            [sp EXCEPT !.direction_change_tolerance = PositionFromMillimetersF64(v)]
      [] command = "v" ->
            [sp EXCEPT !.forwards_velocity = VelocityFromMetersPerSecondF64(v),
                       !.backwards_velocity = VelocityFromMetersPerSecondF64(v)]
      [] command = "a" ->
            [sp EXCEPT
                !.forwards_acceleration = AccelerationFromMetersPerSecondSquaredF64(v),
                !.forwards_deceleration = AccelerationFromMetersPerSecondSquaredF64(v),
                !.backwards_acceleration = AccelerationFromMetersPerSecondSquaredF64(v),
                !.backwards_deceleration = AccelerationFromMetersPerSecondSquaredF64(v)]
      [] command = "fv" ->
            [sp EXCEPT !.forwards_velocity = VelocityFromMetersPerSecondF64(v)]
      [] command = "fa" ->
            [sp EXCEPT !.forwards_acceleration = AccelerationFromMetersPerSecondSquaredF64(v)]
      [] command = "fd" ->
            [sp EXCEPT !.forwards_deceleration = AccelerationFromMetersPerSecondSquaredF64(v)]
      [] command = "bv" ->
            [sp EXCEPT !.backwards_velocity = VelocityFromMetersPerSecondF64(v)]
      [] command = "ba" ->
            [sp EXCEPT !.backwards_acceleration = AccelerationFromMetersPerSecondSquaredF64(v)]
      [] command = "bd" ->
            [sp EXCEPT !.backwards_deceleration = AccelerationFromMetersPerSecondSquaredF64(v)]

\* The + or - of the command leaves the i32 range.
ConsoleCommandOverflows(sp, command, v) ==
    CASE command = "sl" -> AddOverflows(sp.start, PositionFromMillimetersF64(v))
      [] command = "el" -> SubOverflows(sp.end, PositionFromMillimetersF64(v))
      [] OTHER -> FALSE

\* ------------------------------------------------------------------------
\* The stroke motion planner (main.rs).
\* ------------------------------------------------------------------------

VaiGoToPos(target, velocity, acceleration, deceleration) ==
    [id |-> "VaiGoToPos", target_position |-> target, maximal_velocity |-> velocity,
     acceleration |-> acceleration, deceleration |-> deceleration]

VaiStop(deceleration) == [id |-> "VaiStop", deceleration |-> deceleration]

\* The forwards branch's test for a reversal.
ForwardsReached(demand_position, end_position, tolerance) ==
    demand_position >= WrappingSub(end_position, tolerance)

\* The backwards branch's test for a reversal.
BackwardsReached(demand_position, start_position, tolerance) ==
    demand_position <= WrappingAdd(start_position, tolerance)

\* A faulty forwards command whose velocity is not clamped.
ForwardsCommandUnclamped(limits, params) ==
    VaiGoToPos(Min(params.end, limits.stroke_limit),
               params.forwards_velocity,
               Min(params.forwards_acceleration, limits.acceleration_limit),
               Min(params.forwards_deceleration, limits.acceleration_limit))

\* The command the forwards branch returns.
ForwardsCommand(limits, params) ==
    VaiGoToPos(Min(params.end, limits.stroke_limit),
               Min(params.forwards_velocity, limits.velocity_limit),
               Min(params.forwards_acceleration, limits.acceleration_limit),
               Min(params.forwards_deceleration, limits.acceleration_limit))

\* The command the backwards branch returns.
BackwardsCommand(limits, params) ==
    VaiGoToPos(Min(params.start, limits.stroke_limit),
               Min(params.backwards_velocity, limits.velocity_limit),
               Min(params.backwards_acceleration, limits.acceleration_limit),
               Min(params.backwards_deceleration, limits.acceleration_limit))

\* A faulty forwards branch that builds the command of the direction the
\* latch holds after the reversal test.
ForwardsBranchNewDirection(limits, params, demand_position) ==
    LET end_position == Min(params.end, limits.stroke_limit)
        reached == ForwardsReached(demand_position, end_position,
                                   params.direction_change_tolerance)
    IN  [command |-> IF reached THEN BackwardsCommand(limits, params)
                     ELSE ForwardsCommand(limits, params),
         moving_forwards |-> ~reached,
         overflowed |-> SubOverflows(end_position, params.direction_change_tolerance)]

\* The forwards branch when the stroke is not stopped: the latch after the
\* reversal test and the command, which is the forwards one either way.
\* `overflowed` says that the subtraction of the tolerance left the i32
\* range: a build with overflow checks panics there, one without goes on
\* with the wrapped value, as here.
ForwardsBranch(limits, params, demand_position) ==
    LET end_position == Min(params.end, limits.stroke_limit)
        reached == ForwardsReached(demand_position, end_position,
                                   params.direction_change_tolerance)
    IN  [command |-> ForwardsCommand(limits, params),
         moving_forwards |-> ~reached,
         overflowed |-> SubOverflows(end_position, params.direction_change_tolerance)]

\* The backwards branch when the stroke is not stopped.
BackwardsBranch(limits, params, demand_position) ==
    LET start_position == Min(params.start, limits.stroke_limit)
        reached == BackwardsReached(demand_position, start_position,
                                    params.direction_change_tolerance)
    IN  [command |-> BackwardsCommand(limits, params),
         moving_forwards |-> reached,
         overflowed |-> AddOverflows(start_position, params.direction_change_tolerance)]

\* A faulty stopped branch that takes the reversal test before it returns.
StoppedBranchFlipping(limits, params, moving_forwards, demand_position) ==
    [command |-> VaiStop(Min(IF moving_forwards THEN params.forwards_deceleration
                             ELSE params.backwards_deceleration,
                             limits.acceleration_limit)),
     moving_forwards |->
         IF moving_forwards
         THEN ~ForwardsReached(demand_position,
                               Min(params.end, limits.stroke_limit),
                               params.direction_change_tolerance)
         ELSE BackwardsReached(demand_position,
                               Min(params.start, limits.stroke_limit),
                               params.direction_change_tolerance),
     overflowed |-> FALSE]

\* Either branch when the stroke is stopped: the early return of VaiStop
\* with the clamped deceleration of the branch; the latch is not written.
StoppedBranch(limits, params, moving_forwards, demand_position) ==
    [command |-> VaiStop(Min(IF moving_forwards THEN params.forwards_deceleration
                             ELSE params.backwards_deceleration,
                             limits.acceleration_limit)),
     moving_forwards |-> moving_forwards,
     overflowed |-> FALSE]

\* get_motion_command_for_stroke_params: the command returned and the
\* direction latch after the call.
GetMotionCommandForStrokeParams(limits, params, moving_forwards, demand_position) ==
    IF params.stopped
    THEN StoppedBranch(limits, params, moving_forwards, demand_position)
    ELSE IF moving_forwards
         THEN ForwardsBranch(limits, params, demand_position)
         ELSE BackwardsBranch(limits, params, demand_position)


\* ------------------------------------------------------------------------
\* Frames (linmot/udp.rs).  A received frame is kept by its two flag words,
\* its length in bytes and the values of the fields the loop reads.
\* ------------------------------------------------------------------------

BUFFER_SIZE == 64

\* The fields of a Response, in ResponseFlags bit order.
ResponseFields ==
    << "STATUS_FLAGS", "STATE", "ACTUAL_POSITION", "DEMAND_POSITION", "CURRENT",
       "WARNING_FLAGS", "ERROR_CODE", "MONITORING_CHANNEL", "REALTIME_CONFIGURATION" >>

\* The bytes WireRead reads for the field.
FieldWidth(f) ==
    CASE f \in {"STATUS_FLAGS", "STATE", "CURRENT", "WARNING_FLAGS", "ERROR_CODE"} -> 2
      [] f \in {"ACTUAL_POSITION", "DEMAND_POSITION"} -> 4
      [] f = "MONITORING_CHANNEL" -> 16
      [] f = "REALTIME_CONFIGURATION" -> 8

\* The response flags loop_tick asks for.
RequestedResponseFlags ==
    {"STATUS_FLAGS", "STATE", "ACTUAL_POSITION", "DEMAND_POSITION", "CURRENT",
     "WARNING_FLAGS", "ERROR_CODE"}

\* A faulty read_bytes whose bounds check lets the read run one byte past
\* the end of the buffer.
ReadBytesPastEnd(idx, n, len) == IF idx + n > len + 1 THEN -1 ELSE idx + n

\* Reader::read_bytes: the cursor after reading n bytes of a buffer of
\* length len at cursor idx, or -1 (buffer underflow, cursor not moved on).
ReadBytes(idx, n, len) == IF idx + n > len THEN -1 ELSE idx + n

\* The reads of Response::read_opt for the fields i.. of ResponseFields, in
\* order: the cursor after the last one, or -1 as soon as one read fails.
RECURSIVE ReadOptFrom(_, _, _, _)
ReadOptFrom(i, idx, flags, len) ==
    IF idx = -1 \/ i > Len(ResponseFields) THEN idx
    ELSE IF ResponseFields[i] \in flags
         THEN ReadOptFrom(i + 1, ReadBytes(idx, FieldWidth(ResponseFields[i]), len),
                          flags, len)
         ELSE ReadOptFrom(i + 1, idx, flags, len)

\* A faulty from_wire that reads the fields of the response flags as they
\* came.
UngatedResponseFlags(frame) == frame.response_flags

\* The response flags from_wire reads fields for: REALTIME_CONFIGURATION is
\* removed unless the frame's request flags hold it too.
GatedResponseFlags(frame) ==
    IF "REALTIME_CONFIGURATION" \in frame.request_flags
    THEN frame.response_flags
    ELSE frame.response_flags \ {"REALTIME_CONFIGURATION"}

\* The Option read_opt returns for field f once every read has succeeded.
ReadOpt(flags, f, value) == IF f \in flags THEN Some(value) ELSE None

\* The Reader's cursor when from_wire has read the two flag words and every
\* field of the gated response flags, or -1 when one of the reads failed.
FromWireEnd(frame) ==
    LET header == ReadBytes(ReadBytes(0, 4, frame.length), 4, frame.length)
    IN  IF ReadBytes(0, 4, frame.length) = -1 THEN -1
        ELSE ReadOptFrom(1, header, GatedResponseFlags(frame), frame.length)

\* Response::from_wire: Ok with the Response, or Err.
FromWire(frame) ==
    LET flags == GatedResponseFlags(frame)
        end == FromWireEnd(frame)
    IN  IF end = -1
        THEN [ok |-> FALSE, value |-> None]
        ELSE [ok |-> TRUE,
              value |->
                [status_flags |-> ReadOpt(flags, "STATUS_FLAGS", 0),
                 state |-> ReadOpt(flags, "STATE",
                                   StateFromWire(frame.sub_state, frame.main_state)),
                 actual_position |-> ReadOpt(flags, "ACTUAL_POSITION", 0),
                 demand_position |->
                     ReadOpt(flags, "DEMAND_POSITION", frame.demand_position),
                 current |-> ReadOpt(flags, "CURRENT", 0),
                 warning_flags |-> ReadOpt(flags, "WARNING_FLAGS", 0),
                 error_code |-> ReadOpt(flags, "ERROR_CODE", ErrorCodeFrom(0)),
                 monitoring_channel |->
                     ReadOpt(flags, "MONITORING_CHANNEL", <<0, 0, 0, 0>>),
                 realtime_configuration |->
                     ReadOpt(flags, "REALTIME_CONFIGURATION", <<0, 0, 0, 0>>)]]

\* A faulty Request::flags that leaves REALTIME_CONFIGURATION out.
FlagsWithoutRealtimeConfiguration(request) ==
    (IF IsSome(request.control_flags) THEN {"CONTROL_FLAGS"} ELSE {})
    \cup (IF IsSome(request.motion_command) THEN {"MOTION_COMMAND"} ELSE {})

\* Request::flags: the bits of the request flags word.
Flags(request) ==
    (IF IsSome(request.control_flags) THEN {"CONTROL_FLAGS"} ELSE {})
    \cup (IF IsSome(request.motion_command) THEN {"MOTION_COMMAND"} ELSE {})
    \cup (IF IsSome(request.realtime_configuration)
          THEN {"REALTIME_CONFIGURATION"} ELSE {})

\* A to_wire that writes the realtime configuration first.
WrittenFieldsRealtimeFirst(request) ==
    (IF IsSome(request.realtime_configuration)
     THEN << "REALTIME_CONFIGURATION" >> ELSE << >>)
    \o (IF IsSome(request.control_flags) THEN << "CONTROL_FLAGS" >> ELSE << >>)
    \o (IF IsSome(request.motion_command) THEN << "MOTION_COMMAND" >> ELSE << >>)

\* The fields to_wire writes after the two flag words, in the order of its
\* `if let Some` statements.
WrittenFields(request) ==
    (IF IsSome(request.control_flags) THEN << "CONTROL_FLAGS" >> ELSE << >>)
    \o (IF IsSome(request.motion_command) THEN << "MOTION_COMMAND" >> ELSE << >>)
    \o (IF IsSome(request.realtime_configuration)
        THEN << "REALTIME_CONFIGURATION" >> ELSE << >>)

\* Writer::write_bytes: the cursor after writing n bytes, or -1 (overflow).
WriteBytes(idx, n, len) == IF idx = -1 \/ idx + n > len THEN -1 ELSE idx + n

\* Request::to_wire into a buffer of length len: the bytes written, or -1.
\* The two flag words, then the fields that hold a value: the control flags
\* (u16), the motion command (32 bytes), the realtime configuration (8 bytes).
ToWire(request, len) ==
    LET header == WriteBytes(WriteBytes(0, 4, len), 4, len)
        cw == IF IsSome(request.control_flags) THEN WriteBytes(header, 2, len)
              ELSE header
        mc == IF IsSome(request.motion_command) THEN WriteBytes(cw, 32, len) ELSE cw
    IN  IF IsSome(request.realtime_configuration) THEN WriteBytes(mc, 8, len) ELSE mc


\* ------------------------------------------------------------------------
\* The program's state.
\* ------------------------------------------------------------------------

VARIABLES
    stroke_params,       \* the shared Mutex<StrokeParams>
    last_response,       \* the shared Mutex<Option<Response>>
    stroke_limits,       \* DriveConnection::stroke_limits
    last_state,          \* DriveConnection::last_state
    control_flags,       \* DriveConnection::control_flags, the set of its bits
    acknowledge_error,   \* DriveConnection::acknowledge_error
    moving_forwards,     \* DriveConnection::moving_forwards
    request,             \* the Request the last loop_tick built, if any
    tick_result,         \* how the last loop_tick ended: "ok" or the step that failed
    loop_message_count,  \* start_loop's locals
    loop_error_history,
    loop_duration_sum,
    loop_duration_min,
    loop_duration_max,
    last_loop_report,
    next_tick,
    report,              \* the counts the last iteration's report printed, if any
    window,              \* history: whether each tick since the last report failed
    pc,                  \* start_loop: "running", "aborted" (it returned the
                         \* error) or "panicked"
    codec,               \* a call of to_wire, from_wire or State::read_from on
                         \* its own: the input and, once made, the result
    threads,             \* the threads at the grain of their statements: who
                         \* holds each Mutex and where each thread stands; None
                         \* where every handler is taken as one step
    clock                \* history: the Instants of the loop on one time
                         \* axis; None where only the Instants relative to the
                         \* start of the iteration are kept

vars ==
    << stroke_params, last_response, stroke_limits, last_state, control_flags,
       acknowledge_error, moving_forwards, request, tick_result,
       loop_message_count, loop_error_history, loop_duration_sum,
       loop_duration_min, loop_duration_max, last_loop_report, next_tick,
       report, window, pc, codec, threads, clock >>

\* Duration::MAX, the start value of loop_duration_min.
DURATION_MAX == MaxI32

\* ------------------------------------------------------------------------
\* DriveConnection::loop_tick (main.rs).
\* ------------------------------------------------------------------------

\* The arms of the match on the drive state of loop_tick.  `same` holds the
\* fields of the connection before the tick and no motion command; each arm
\* returns the fields after it and the motion command it attaches.

\* A faulty NotReadyToSwitchOn arm that leaves the flags as they were.
NotReadyToSwitchOnArmKeeping(same) == same

\* NotReadyToSwitchOn.
NotReadyToSwitchOnArm(same) == [same EXCEPT !.control_flags = {}]

\* A faulty ReadyToSwitchOn arm: the latch is left as it was.
ReadyToSwitchOnArmKeepingLatch(same, sp) ==
    [same EXCEPT !.control_flags =
                     IF sp.enabled THEN {"SWITCH_ON"} ELSE same.control_flags]

\* A faulty ReadyToSwitchOn arm that inserts SWITCH_ON into the flags.
ReadyToSwitchOnArmInserting(same, sp) ==
    [same EXCEPT !.acknowledge_error = FALSE,
                 !.control_flags =
                     IF sp.enabled THEN same.control_flags \cup {"SWITCH_ON"}
                     ELSE same.control_flags]

\* ReadyToSwitchOn: the latch is cleared; the flags are assigned SWITCH_ON
\* when the stroke is enabled and are not touched when it is not.
ReadyToSwitchOnArm(same, sp) ==
    [same EXCEPT !.acknowledge_error = FALSE,
                 !.control_flags =
                     IF sp.enabled THEN {"SWITCH_ON"} ELSE same.control_flags]

\* A faulty Error arm: ERROR_ACKNOWLEDGE is inserted, not assigned.
ErrorArmInserting(same) ==
    [same EXCEPT !.control_flags = same.control_flags \cup {"ERROR_ACKNOWLEDGE"}]

\* Error while the latch is set.
ErrorArm(same) == [same EXCEPT !.control_flags = {"ERROR_ACKNOWLEDGE"}]

\* A faulty arm that assigns HOME.
NotHomedArmAssigning(same) == [same EXCEPT !.control_flags = {"HOME"}]

\* OperationEnabled, not homed.
NotHomedArm(same) == [same EXCEPT !.control_flags = same.control_flags \cup {"HOME"}]

\* A faulty counter that is not reduced to four bits.
NextCommandCountUnmasked(motion_command_count) == motion_command_count + 1

\* next_command_count: wrapping_add(1) of the u8, then & 0xF.
NextCommandCount(motion_command_count) ==
    ((motion_command_count + 1) % 256) % 16

\* A faulty arm that clears every flag when the stroke is disabled.
HomedDisabledArmClearing(same) == [same EXCEPT !.control_flags = {}]

\* OperationEnabled, homed, the stroke disabled.
HomedDisabledArm(same) ==
    [same EXCEPT !.control_flags = same.control_flags \ {"SWITCH_ON"}]

\* OperationEnabled, homed.
HomedArm(same, state, demand_position, limits, sp) ==
    IF ~sp.enabled
    THEN HomedDisabledArm(same)
    ELSE LET plan == GetMotionCommandForStrokeParams(
                         limits, sp, same.moving_forwards, demand_position)
             next_command_count == NextCommandCount(state.motion_command_count)
         IN  [same EXCEPT
                !.moving_forwards = plan.moving_forwards,
                !.overflowed = plan.overflowed,
                !.motion_command =
                    Some([count |-> next_command_count, command |-> plan.command])]

\* A faulty arm that clears every flag when homing has finished.
HomingFinishedArmClearing(same) == [same EXCEPT !.control_flags = {}]

\* Homing, finished.
HomingFinishedArm(same) == [same EXCEPT !.control_flags = same.control_flags \ {"HOME"}]

\* A faulty catch-all arm that clears the flags.
OtherArmClearing(same) == [same EXCEPT !.control_flags = {}]

\* The catch-all arm `_ => {}`.
OtherArm(same) == same

\* The match on the drive state of loop_tick.  sp is the StrokeParams value
\* read under the lock.
StateMachine(state, demand_position, flags, ack, forwards, limits, sp) ==
    LET same == [control_flags |-> flags, acknowledge_error |-> ack,
                 moving_forwards |-> forwards, motion_command |-> None,
                 overflowed |-> FALSE]
    IN  CASE state.tag = "NotReadyToSwitchOn" -> NotReadyToSwitchOnArm(same)
          [] state.tag = "ReadyToSwitchOn" -> ReadyToSwitchOnArm(same, sp)
          [] state.tag = "Error" /\ ack -> ErrorArm(same)
          [] state.tag = "OperationEnabled" /\ ~state.homed -> NotHomedArm(same)
          [] state.tag = "OperationEnabled" /\ state.homed ->
                HomedArm(same, state, demand_position, limits, sp)
          [] state.tag = "Homing" /\ state.finished -> HomingFinishedArm(same)
          [] OTHER -> OtherArm(same)

\* A faulty loop_tick that matches on the state alone, taking 0 for a
\* demand position the Response does not hold.
EvaluateResponseWithoutDemand(response, flags, ack, forwards, limits, sp) ==
    IF IsSome(response) /\ IsSome(Unwrap(response).state)
    THEN StateMachine(Unwrap(Unwrap(response).state),
                      IF IsSome(Unwrap(response).demand_position)
                      THEN Unwrap(Unwrap(response).demand_position) ELSE 0,
                      flags, ack, forwards, limits, sp)
    ELSE [control_flags |-> flags, acknowledge_error |-> ack,
          moving_forwards |-> forwards, motion_command |-> None,
          overflowed |-> FALSE]

\* The part of loop_tick before the request is sent: the state machine runs
\* only on a stored Response that holds a state and a demand position.
EvaluateResponse(response, flags, ack, forwards, limits, sp) ==
    IF IsSome(response) /\ IsSome(Unwrap(response).state)
                        /\ IsSome(Unwrap(response).demand_position)
    THEN StateMachine(Unwrap(Unwrap(response).state),
                      Unwrap(Unwrap(response).demand_position),
                      flags, ack, forwards, limits, sp)
    ELSE [control_flags |-> flags, acknowledge_error |-> ack,
          moving_forwards |-> forwards, motion_command |-> None,
          overflowed |-> FALSE]

\* last_state after loop_tick: the observed state, when there is one.
ObservedState(response, previous) ==
    IF IsSome(response) /\ IsSome(Unwrap(response).state)
                        /\ IsSome(Unwrap(response).demand_position)
    THEN Unwrap(Unwrap(response).state)
    ELSE previous

\* The Request loop_tick sends.
BuildRequest(flags, motion_command) ==
    [control_flags |-> Some(flags), motion_command |-> motion_command,
     realtime_configuration |-> None, response_flags |-> RequestedResponseFlags]

\* How loop_tick ends: "ok", or the step whose error `?` returns.  to_send
\* is what to_wire returned, outcome what the socket does ("send_error",
\* "recv_error" for a failed or timed out recv, or "frame", a received frame)
\* and decoded what from_wire returns for the frame.
TickResult(to_send, outcome, decoded) ==
    IF to_send = -1 THEN "encode"
    ELSE IF outcome.kind = "send_error" THEN "send"
    ELSE IF outcome.kind = "recv_error" THEN "recv"
    ELSE IF ~decoded.ok THEN "decode"
    ELSE "ok"

\* A faulty loop_tick that stores the Option a failed tick is left with.
StoreResponseOrNone(previous, result, decoded) ==
    IF result = "ok" THEN Some(decoded.value) ELSE None

\* The stored Response after loop_tick.
StoreResponse(previous, result, decoded) ==
    IF result = "ok" THEN Some(decoded.value) ELSE previous

\* ------------------------------------------------------------------------
\* DriveConnection::start_loop (main.rs).
\* ------------------------------------------------------------------------

\* A faulty circuit breaker that trips on any error in the window.
TooManyErrorsAny(errors, message_count) == errors # 0

\* A faulty circuit breaker that waits for more errors than ticks.
TooManyErrorsOffByOne(errors, message_count) ==
    errors # 0 /\ errors = message_count + 1

\* The report point's test for the circuit breaker.
TooManyErrors(errors, message_count) == errors # 0 /\ errors = message_count

\* The report point is reached when the tick ends at `now`.
ReportDue(now, last_report) == now - last_report >= ReportInterval

\* A faulty deadline that is relative to the end of the tick.
NextDeadlineFromNow(deadline, now) == now + LoopInterval

\* A faulty deadline that is never realigned.
NextDeadlineCompounding(deadline, now) == deadline + LoopInterval

\* next_tick after the end of an iteration at `now`: one interval after the
\* old deadline when it was met, one interval after `now` when it was missed.
NextDeadline(deadline, now) ==
    IF deadline >= now THEN deadline + LoopInterval ELSE now + LoopInterval

\* A faulty start_loop that keeps the errors of recv alone.
PushErrorRecvOnly(history, result) ==
    IF result = "recv" THEN Append(history, result) ELSE history

\* A faulty start_loop that keeps the error of a failed tick twice.
PushErrorTwice(history, result) ==
    IF result = "ok" THEN history ELSE Append(Append(history, result), result)

\* loop_error_history after a tick that ended with `result`.
PushError(history, result) ==
    IF result = "ok" THEN history ELSE Append(history, result)

\* A faulty loop that starts the next iteration without sleeping.
SleepEndNoSleep(deadline, now, oversleep) == now

\* The Instant at which the next iteration starts: std::thread::sleep
\* returns `oversleep` after the deadline when it was met at `now`, and
\* there is no sleep when it was missed.
SleepEnd(deadline, now, oversleep) ==
    IF deadline >= now THEN deadline + oversleep ELSE now

\* A faulty report that keeps the error history.
KeptHistory(errors) == errors

\* loop_error_history.clear() at the end of a report.
ClearedHistory(errors) == << >>

\* A faulty loop_tick that undoes the changes of the match when it fails.
FieldsRolledBack(sm, result) ==
    IF result = "ok" THEN sm
    ELSE [sm EXCEPT !.control_flags = control_flags,
                    !.acknowledge_error = acknowledge_error,
                    !.moving_forwards = moving_forwards]

\* The fields of the connection after loop_tick: the `?` that returns the
\* error of to_wire, send, recv or from_wire leaves them as the match set
\* them.
FieldsAfterTick(sm, result) == sm

\* The Instants of the iteration that started at clock.now, on the axis of
\* clock: when the tick finished, the deadline it was measured against,
\* when the next iteration starts, and the deadline `base` from which
\* `ticks` on-time ticks in a row have been taken.
ClockAfter(now, end, on_time) ==
    IF clock = None THEN None
    ELSE LET c == Unwrap(clock)
         IN  Some([now |-> c.now + end,
                   finished |-> c.now + now,
                   deadline |-> c.now + next_tick,
                   base |-> IF on_time THEN c.base
                            ELSE c.now + now + LoopInterval,
                   ticks |-> IF on_time THEN c.ticks + 1 ELSE 0])

\* The rest of an iteration of start_loop after loop_tick, which built the
\* request req, ended with `result` at Instant `now` and left the fields sm
\* and the stored response `stored`: the statistics, the report with the
\* circuit breaker, and the sleep that ends `oversleep` after the deadline.
FinishIteration(sm, req, result, stored, now, oversleep) ==
    LET errors == PushError(loop_error_history, result)
        message_count == loop_message_count + 1
        due == ReportDue(now, last_loop_report)
        abort == due /\ TooManyErrors(Len(errors), message_count)
        on_time == next_tick >= now
        end == IF abort THEN now ELSE SleepEnd(next_tick, now, oversleep)
    IN  /\ oversleep # 0 => on_time /\ ~abort
        /\ last_state' = ObservedState(last_response, last_state)
        /\ control_flags' = FieldsAfterTick(sm, result).control_flags
        /\ acknowledge_error' = FieldsAfterTick(sm, result).acknowledge_error
        /\ moving_forwards' = FieldsAfterTick(sm, result).moving_forwards
        /\ request' = Some(req)
        /\ tick_result' = result
        /\ last_response' = stored
        /\ report' = IF due
                     THEN Some([errors |-> Len(errors), message_count |-> message_count])
                     ELSE None
        /\ pc' = IF abort THEN "aborted" ELSE "running"
        /\ IF due /\ ~abort
           THEN /\ loop_message_count' = 0
                /\ loop_error_history' = ClearedHistory(errors)
                /\ loop_duration_sum' = 0
                /\ loop_duration_min' = DURATION_MAX
                /\ loop_duration_max' = 0
                /\ window' = << >>
           ELSE /\ loop_message_count' = message_count
                /\ loop_error_history' = errors
                /\ loop_duration_sum' = loop_duration_sum + now
                /\ loop_duration_min' = Min(loop_duration_min, now)
                /\ loop_duration_max' = Max(loop_duration_max, now)
                /\ window' = Append(window, result # "ok")
        /\ last_loop_report' = (IF due /\ ~abort THEN now ELSE last_loop_report) - end
        /\ next_tick' = (IF abort THEN next_tick ELSE NextDeadline(next_tick, now)) - end
        /\ clock' = ClockAfter(now, end, on_time)

\* One iteration of the loop of start_loop.  The iteration starts at
\* Instant 0 and loop_tick takes `duration`.  A build with overflow checks
\* panics when the planner's arithmetic overflows.
LoopIteration(outcome, duration, oversleep) ==
    /\ pc = "running"
    /\ \E sm \in {EvaluateResponse(last_response, control_flags, acknowledge_error,
                                   moving_forwards, stroke_limits, stroke_params)} :
       \E panics \in (IF sm.overflowed THEN BOOLEAN ELSE {FALSE}) :
         IF panics
         THEN /\ pc' = "panicked"
              /\ UNCHANGED << last_response, last_state, control_flags,
                              acknowledge_error, moving_forwards, request,
                              tick_result, loop_message_count,
                              loop_error_history, loop_duration_sum,
                              loop_duration_min, loop_duration_max,
                              last_loop_report, next_tick, report, window,
                              clock >>
         ELSE \E req \in {BuildRequest(sm.control_flags, sm.motion_command)} :
              \E decoded \in {IF outcome.kind = "frame" THEN FromWire(outcome)
                              ELSE [ok |-> FALSE, value |-> None]} :
              \E result \in {TickResult(ToWire(req, BUFFER_SIZE), outcome, decoded)} :
                FinishIteration(sm, req, result,
                                StoreResponse(last_response, result, decoded),
                                duration, oversleep)
    /\ UNCHANGED << stroke_params, stroke_limits, codec, threads >>

\* One line of run_input_loop: the command is applied under the lock.  A
\* build with overflow checks panics on an overflowing sl or el.
ConsoleInput(command, v) ==
    /\ pc = "running"
    /\ ~ConsoleCommandOverflows(stroke_params, command, v)
    /\ stroke_params' = ApplyConsoleCommand(stroke_params, command, v)
    /\ UNCHANGED << last_response, stroke_limits, last_state, control_flags,
                    acknowledge_error, moving_forwards, request, tick_result,
                    loop_message_count, loop_error_history, loop_duration_sum,
                    loop_duration_min, loop_duration_max, last_loop_report,
                    next_tick, report, window, pc, codec, threads, clock >>


\* ------------------------------------------------------------------------
\* The environment: what the drive answers and what the console reads.
\* ------------------------------------------------------------------------

\* The sub_state bytes the drive reports: 0x0F (homing finished; in
\* OperationEnabled count 15, not homed) and 0x8F (count 15, homed).
SubStates == {15, 143}

\* The main_state bytes the drive reports: the states loop_tick acts on (0,
\* 2, 4, 8, 9) and one it has no arm for (1, SwitchOnDisabled).
MainStates == {0, 1, 2, 4, 8, 9}

\* The demand position the drive reports: -1 mm.
DemandPositions == {PositionFromMillimeters(-1)}

\* The length of a frame that holds exactly the fields of `flags`.
FrameLength(flags) == ReadOptFrom(1, 8, flags, BUFFER_SIZE)

Frame(response_flags, length, sub_state, main_state, demand_position) ==
    [kind |-> "frame", request_flags |-> {"CONTROL_FLAGS"},
     response_flags |-> response_flags, length |-> length,
     sub_state |-> sub_state, main_state |-> main_state,
     demand_position |-> demand_position]

\* A complete answer to the request of loop_tick.
Answer(sub_state, main_state, demand_position) ==
    Frame(RequestedResponseFlags, FrameLength(RequestedResponseFlags),
          sub_state, main_state, demand_position)

\* A frame cut short by a byte.
TruncatedAnswer ==
    Frame(RequestedResponseFlags, FrameLength(RequestedResponseFlags) - 1,
          143, 8, PositionFromMillimeters(-1))

\* The answers of the drive: complete ones in every state, one without the
\* state and one without the demand position.
Answers ==
    {Answer(sub, main, d) : sub \in SubStates, main \in MainStates, d \in DemandPositions}
    \cup {Frame(RequestedResponseFlags \ {"STATE"},
                FrameLength(RequestedResponseFlags \ {"STATE"}),
                0, 0, PositionFromMillimeters(-1)),
          Frame(RequestedResponseFlags \ {"DEMAND_POSITION"},
                FrameLength(RequestedResponseFlags \ {"DEMAND_POSITION"}), 143, 8, 0)}

\* What the socket does in one loop_tick while the state machine is
\* explored: the recv times out or an answer arrives.
Outcomes == {[kind |-> "recv_error"]} \cup Answers

\* The values typed after a console command: 1.0.
InputValues == {InputOne}

\* The console commands typed while the control loop is explored: power and
\* soft stop.
TypedCommands == {"p", "f"}

\* The limits given on the command line: 1 mm, 1 m/s, 1 m/s^2.
Limits(stroke, velocity, acceleration) ==
    [stroke_limit |-> PositionFromMillimetersF64(stroke),
     velocity_limit |-> VelocityFromMetersPerSecondF64(velocity),
     acceleration_limit |-> AccelerationFromMetersPerSecondSquaredF64(acceleration)]

\* ------------------------------------------------------------------------
\* The specification of the control loop with the console.
\* ------------------------------------------------------------------------

\* The state after DriveConnection::new and the first lines of start_loop.
Init ==
    /\ stroke_params = StrokeParamsNew
    /\ last_response = None
    /\ stroke_limits = Limits(InputOne, InputOne, InputOne)
    /\ last_state = PlainState("NotReadyToSwitchOn")
    /\ control_flags = {}
    /\ acknowledge_error = TRUE
    /\ moving_forwards = FALSE
    /\ request = None
    /\ tick_result = "none"
    /\ loop_message_count = 0
    /\ loop_error_history = << >>
    /\ loop_duration_sum = 0
    /\ loop_duration_min = DURATION_MAX
    /\ loop_duration_max = 0
    /\ last_loop_report = 0
    /\ next_tick = LoopInterval
    /\ report = None
    /\ window = << >>
    /\ pc = "running"
    /\ codec = None
    /\ threads = None
    /\ clock = None

Tick == \E outcome \in Outcomes : LoopIteration(outcome, TickDuration, 0)

Console == \E command \in TypedCommands, v \in InputValues : ConsoleInput(command, v)

Next == Tick \/ Console

Spec == Init /\ [][Next]_vars

\* ------------------------------------------------------------------------
\* The specification of the cyclic loop with its timing: loop_tick takes
\* any time up to MaxTickDuration, the sleep may end late, and the tick
\* fails at any of its steps.  Nothing is typed at the console.
\* ------------------------------------------------------------------------

\* What the socket does in one loop_tick: the send fails, the recv fails or
\* times out, a frame arrives cut short, or a complete answer arrives (a
\* homed OperationEnabled or NotReadyToSwitchOn).
LoopOutcomes ==
    {[kind |-> "send_error"], [kind |-> "recv_error"], TruncatedAnswer,
     Answer(143, 8, PositionFromMillimeters(-1)),
     Answer(15, 0, PositionFromMillimeters(-1))}

\* The sleep ends before the deadline after it: an iteration takes time.
Oversleeps == 0 .. Min(MaxOversleep, LoopInterval - 1)

TimedTick ==
    \E outcome \in LoopOutcomes, duration \in 0 .. MaxTickDuration,
       oversleep \in Oversleeps :
        LoopIteration(outcome, duration, oversleep)

NextLoop == TimedTick

SpecLoop == Init /\ [][NextLoop]_vars

\* The thread of start_loop keeps running: an iteration that can be taken
\* is taken.
SpecLoopFair == SpecLoop /\ WF_vars(TimedTick)

\* ------------------------------------------------------------------------
\* The specification of the planner: the stroke parameters and the limits
\* are drawn from bounded sets (the console sets any of them before the
\* first tick), the stroke is enabled, and the drive answers every tick as
\* a homed OperationEnabled with a demand position drawn from a bounded set,
\* so that every tick after the first calls the planner.
\* ------------------------------------------------------------------------

\* Positions and tolerances: the ends of the i32 range, 0 and 1 mm.
PlannerPositions == {MinI32, 0, PositionFromMillimeters(1), MaxI32}

\* The demand positions the drive reports to the planner.
PlannerDemandPositions == {MinI32, 0, MaxI32}

\* The limits: those of Init, and the widest ones.
PlannerRateLimits ==
    {<< VelocityFromMetersPerSecondF64(InputOne),
        AccelerationFromMetersPerSecondSquaredF64(InputOne) >>,
     << MaxI32, MaxI32 >>}

\* The stroke parameters: any positions and tolerance, stopped or not, and
\* rates that differ from each other, some below and some above 1 m/s and
\* 1 m/s^2.
PlannerStrokeParams ==
    {[StrokeParamsNew EXCEPT
        !.enabled = TRUE,
        !.stopped = stopped,
        !.start = start,
        !.end = end,
        !.direction_change_tolerance = tolerance,
        !.forwards_velocity = VelocityFromMetersPerSecond(2),
        !.forwards_acceleration = AccelerationFromMetersPerSecondSquared(1) - 1,
        !.forwards_deceleration = AccelerationFromMetersPerSecondSquared(2),
        !.backwards_velocity = VelocityFromMetersPerSecond(1) - 1,
        !.backwards_acceleration = AccelerationFromMetersPerSecondSquared(3),
        !.backwards_deceleration = AccelerationFromMetersPerSecondSquared(1) - 2] :
     stopped \in BOOLEAN, start \in PlannerPositions, end \in PlannerPositions,
     tolerance \in PlannerPositions}

InitPlanner ==
    /\ stroke_params \in PlannerStrokeParams
    /\ last_response = None
    /\ stroke_limits \in
           {[stroke_limit |-> stroke, velocity_limit |-> rates[1],
             acceleration_limit |-> rates[2]] :
            stroke \in PlannerPositions, rates \in PlannerRateLimits}
    /\ last_state = PlainState("NotReadyToSwitchOn")
    /\ control_flags = {}
    /\ acknowledge_error = TRUE
    /\ moving_forwards = FALSE
    /\ request = None
    /\ tick_result = "none"
    /\ loop_message_count = 0
    /\ loop_error_history = << >>
    /\ loop_duration_sum = 0
    /\ loop_duration_min = DURATION_MAX
    /\ loop_duration_max = 0
    /\ last_loop_report = 0
    /\ next_tick = LoopInterval
    /\ report = None
    /\ window = << >>
    /\ pc = "running"
    /\ codec = None
    /\ threads = None
    /\ clock = None

PlannerTick ==
    \E demand_position \in PlannerDemandPositions :
        LoopIteration(Answer(143, 8, demand_position), TickDuration, 0)

\* The soft stop is typed at the console.
PlannerConsole == ConsoleInput("f", InputOne)

NextPlanner == PlannerTick \/ PlannerConsole

SpecPlanner == InitPlanner /\ [][NextPlanner]_vars

\* ------------------------------------------------------------------------
\* Properties.
\* ------------------------------------------------------------------------

\* The stored Response holds a state and a demand position: the next
\* loop_tick runs the match on that state.
Observing ==
    /\ IsSome(last_response)
    /\ IsSome(Unwrap(last_response).state)
    /\ IsSome(Unwrap(last_response).demand_position)

ObservedDriveState == Unwrap(Unwrap(last_response).state)

ObservedDemandPosition == Unwrap(Unwrap(last_response).demand_position)

\* The next loop_tick observes a drive state with this tag.
Observes(tag) == Observing /\ ObservedDriveState.tag = tag

\* The step is an iteration of the loop whose loop_tick built its request.
\* (A step of the console changes stroke_params; a panic builds no request.)
TickTaken ==
    /\ pc = "running"
    /\ pc' # "panicked"
    /\ UNCHANGED stroke_params
    /\ IsSome(request')

\* The motion command of the last request, if any.
SentMotionCommand == Unwrap(request).motion_command

\* C1: in every tick the request carries a motion command if and only if the
\* stored Response (with a demand position) reports a homed OperationEnabled
\* and the stroke is enabled at that tick.
C1_MotionCommandIffHomedAndEnabled ==
    [][TickTaken =>
          (IsSome(SentMotionCommand')
             <=> /\ Observes("OperationEnabled")
                 /\ ObservedDriveState.homed
                 /\ stroke_params.enabled)]_vars

\* A tick has sent a motion command.
C1_Witness ==
    /\ IsSome(request)
    /\ IsSome(SentMotionCommand)
    /\ last_state.tag = "OperationEnabled"

\* C2: the latch is true at the start, a tick clears it exactly when it
\* observes ReadyToSwitchOn, no step sets it again, and once it is cleared a
\* tick that observes Error leaves the control flags as they were.
C2_AcknowledgeLatchOneShot ==
    /\ acknowledge_error = TRUE
    /\ [][/\ ~acknowledge_error => ~acknowledge_error'
          /\ TickTaken =>
               /\ acknowledge_error' =
                      (acknowledge_error /\ ~Observes("ReadyToSwitchOn"))
               /\ (~acknowledge_error /\ Observes("Error"))
                      => control_flags' = control_flags]_vars

\* A tick has observed Error after the latch was cleared.
C2_Witness == ~acknowledge_error /\ last_state.tag = "Error"

\* C3: after a tick that observes ReadyToSwitchOn the control flags hold
\* SWITCH_ON if and only if the stroke is enabled at that tick.
C3_SwitchOnIffEnabled ==
    [][(TickTaken /\ Observes("ReadyToSwitchOn")) =>
          (("SWITCH_ON" \in control_flags') <=> stroke_params.enabled)]_vars

\* C4: a tick that observes Error while the latch is true leaves exactly
\* ERROR_ACKNOWLEDGE in the control flags.
C4_ErrorAcknowledgeOnly ==
    [][(TickTaken /\ Observes("Error") /\ acknowledge_error) =>
          control_flags' = {"ERROR_ACKNOWLEDGE"}]_vars

\* A tick has acknowledged an error.
C4_Witness ==
    /\ acknowledge_error = TRUE
    /\ last_state.tag = "Error"
    /\ IsSome(request)
    /\ Unwrap(request).control_flags = Some({"ERROR_ACKNOWLEDGE"})

\* The ticks since the last report with the one this step takes: whether
\* each of them failed.
WindowAfter == Append(window, tick_result' # "ok")

\* The number of failed ticks among those of w.
Failures(w) == Cardinality({i \in DOMAIN w : w[i]})

\* The step's tick ends at a report point.
ReportPoint == TickTaken /\ IsSome(report')

\* The window's tick count and error count once the step's tick is counted
\* (at a report point, the counts that the report prints).
TicksCounted ==
    IF IsSome(report') THEN Unwrap(report').message_count ELSE loop_message_count'

ErrorsCounted ==
    IF IsSome(report') THEN Unwrap(report').errors ELSE Len(loop_error_history')

\* C5: at a report point start_loop returns the error if and only if every
\* tick since the previous report failed.
C5_CircuitBreakerIffAllFailed ==
    [][ReportPoint =>
          ((pc' = "aborted") <=> Failures(WindowAfter) = Len(WindowAfter))]_vars

\* A report point was passed with all ticks of the window but one failed.
C5_Witness ==
    /\ pc = "running"
    /\ IsSome(report)
    /\ Unwrap(report).message_count >= 2
    /\ Unwrap(report).errors = Unwrap(report).message_count - 1

\* The last tick failed.
TickFailed == tick_result \notin {"none", "ok"}

\* C6: when from some tick on every tick fails, start_loop returns the
\* error, at the first report point whose window holds failed ticks only;
\* start_loop ends in no other way and at no other point.
C6_AllFailingEndsFatal ==
    /\ (<>[]TickFailed) => <>(pc = "aborted")
    /\ [](pc \in {"running", "aborted"})
    /\ [][(ReportPoint /\ Failures(WindowAfter) = Len(WindowAfter))
             => pc' = "aborted"]_vars
    /\ [][(pc = "running" /\ pc' = "aborted")
             => (ReportPoint /\ Failures(WindowAfter) = Len(WindowAfter))]_vars

\* start_loop has returned the error after a window of two or more ticks.
C6_Witness == pc = "aborted" /\ Len(window) >= 2 /\ TickFailed

\* C7: a failed tick leaves the stored Response as it was; a tick that
\* succeeds stores a Response.
C7_FailedTickKeepsResponse ==
    [][TickTaken =>
          IF tick_result' = "ok"
          THEN IsSome(last_response')
          ELSE last_response' = last_response]_vars

\* A frame failed to decode while a Response was stored.
C7_Witness == tick_result = "decode" /\ IsSome(last_response) /\ pc = "running"

\* C8: every tick adds one to the window's tick count, and one to its error
\* count if and only if it failed; the counts are those of the ticks since
\* the last report; off a report point the loop goes on.
C8_TickCounting ==
    [][TickTaken =>
          /\ TicksCounted = loop_message_count + 1
          /\ ErrorsCounted = Len(loop_error_history)
                                + (IF tick_result' # "ok" THEN 1 ELSE 0)
          /\ TicksCounted = Len(WindowAfter)
          /\ ErrorsCounted = Failures(WindowAfter)
          /\ ~IsSome(report') => pc' = "running"]_vars

\* A send failed, was counted as the window's second error, and the loop
\* goes on.
C8_Witness ==
    /\ tick_result = "send"
    /\ pc = "running"
    /\ loop_message_count = 2
    /\ Len(loop_error_history) = 2

\* The command of the last request's motion command.
SentCommand == Unwrap(SentMotionCommand).command

\* C9: every motion command of the planner is within the limits.
C9_CommandWithinLimits ==
    (IsSome(request) /\ IsSome(SentMotionCommand)) =>
        IF SentCommand.id = "VaiGoToPos"
        THEN /\ SentCommand.target_position <= stroke_limits.stroke_limit
             /\ SentCommand.maximal_velocity <= stroke_limits.velocity_limit
             /\ SentCommand.acceleration <= stroke_limits.acceleration_limit
             /\ SentCommand.deceleration <= stroke_limits.acceleration_limit
        ELSE /\ SentCommand.id = "VaiStop"
             /\ SentCommand.deceleration <= stroke_limits.acceleration_limit

\* The planner has clamped the target and the velocity of a forwards command.
C9_Witness ==
    /\ IsSome(request)
    /\ IsSome(SentMotionCommand)
    /\ SentCommand.id = "VaiGoToPos"
    /\ stroke_params.end > stroke_limits.stroke_limit
    /\ stroke_params.forwards_velocity > stroke_limits.velocity_limit
    /\ SentCommand.target_position = stroke_limits.stroke_limit
    /\ SentCommand.maximal_velocity = stroke_limits.velocity_limit

\* The step's tick calls the planner.
PlannerCalled ==
    /\ TickTaken
    /\ Observes("OperationEnabled")
    /\ ObservedDriveState.homed
    /\ stroke_params.enabled

\* The forwards target and the tolerance of the planner's reversal test.
ForwardsTarget == Min(stroke_params.end, stroke_limits.stroke_limit)

Tolerance == stroke_params.direction_change_tolerance

\* C10 as stated: called with the latch forwards, not stopped, and the
\* demand position at or past min(end, stroke_limit) - tolerance, the planner
\* sets the latch backwards and returns the backwards command.
C10_FlipReturnsBackwards ==
    [][(/\ PlannerCalled
        /\ moving_forwards
        /\ ~stroke_params.stopped
        /\ ~SubOverflows(ForwardsTarget, Tolerance)
        /\ ObservedDemandPosition >= ForwardsTarget - Tolerance)
       => /\ ~moving_forwards'
          /\ SentCommand' = BackwardsCommand(stroke_limits, stroke_params)]_vars

\* C10, amended: called with the latch forwards, not stopped, and the demand
\* position at or past min(end, stroke_limit) - tolerance (as the i32
\* subtraction gives it), a planner call that returns sets the latch
\* backwards and returns the forwards command.
C10_FlipReturnsForwards ==
    [][(/\ PlannerCalled
        /\ moving_forwards
        /\ ~stroke_params.stopped
        /\ ObservedDemandPosition >= WrappingSub(ForwardsTarget, Tolerance))
       => /\ ~moving_forwards'
          /\ SentCommand' = ForwardsCommand(stroke_limits, stroke_params)]_vars

\* A planner call has set the latch backwards and returned the forwards
\* command, which differs from the backwards one.
C10_Witness ==
    /\ IsSome(request)
    /\ IsSome(SentMotionCommand)
    /\ ~moving_forwards
    /\ ~stroke_params.stopped
    /\ SentCommand = ForwardsCommand(stroke_limits, stroke_params)
    /\ SentCommand # BackwardsCommand(stroke_limits, stroke_params)

\* The backwards target of the planner.
BackwardsTarget == Min(stroke_params.start, stroke_limits.stroke_limit)

\* The last planner call ran the forwards branch and set the latch
\* backwards: it returned the forwards command, which is not the backwards
\* one, and the latch is backwards.
FlippedBackwards ==
    /\ IsSome(request)
    /\ IsSome(SentMotionCommand)
    /\ ~moving_forwards
    /\ SentCommand = ForwardsCommand(stroke_limits, stroke_params)
    /\ SentCommand # BackwardsCommand(stroke_limits, stroke_params)

\* C11: the planner call that flips the latch to backwards returns a
\* GoToPosition toward the forwards target min(end, stroke_limit), and the
\* planner call after it returns one toward min(start, stroke_limit).
C11_OldTargetThenNewTarget ==
    [][(PlannerCalled /\ ~stroke_params.stopped) =>
          /\ (moving_forwards /\ ~moving_forwards') =>
                 /\ SentCommand'.id = "VaiGoToPos"
                 /\ SentCommand'.target_position = ForwardsTarget
          /\ FlippedBackwards =>
                 /\ SentCommand'.id = "VaiGoToPos"
                 /\ SentCommand'.target_position = BackwardsTarget]_vars

\* A planner call has flipped the latch to backwards and returned the
\* forwards target, which is not the backwards target.
C11_Witness ==
    /\ FlippedBackwards
    /\ ~stroke_params.stopped
    /\ SentCommand.target_position = ForwardsTarget
    /\ ForwardsTarget # BackwardsTarget

\* C13: called with stopped = true the planner returns VaiStop with the
\* clamped deceleration of the direction the latch holds and leaves the
\* latch as it was, whatever the demand position.
C13_StoppedReturnsVaiStop ==
    [][(PlannerCalled /\ stroke_params.stopped) =>
          /\ moving_forwards' = moving_forwards
          /\ SentCommand' =
                 VaiStop(Min(IF moving_forwards
                             THEN stroke_params.forwards_deceleration
                             ELSE stroke_params.backwards_deceleration,
                             stroke_limits.acceleration_limit))]_vars

\* A planner call has returned VaiStop with the latch forwards, the
\* deceleration being clamped.
C13_Witness ==
    /\ IsSome(request)
    /\ IsSome(SentMotionCommand)
    /\ stroke_params.stopped
    /\ moving_forwards
    /\ SentCommand.id = "VaiStop"
    /\ SentCommand.deceleration = stroke_limits.acceleration_limit
    /\ stroke_params.forwards_deceleration > stroke_limits.acceleration_limit

\* ------------------------------------------------------------------------
\* The specification of the oscillation: the stroke is enabled and not
\* stopped with start <= end <= stroke_limit and a tolerance >= 0, nobody
\* changes the StrokeParams, and the drive answers every tick as a homed
\* OperationEnabled whose demand position moves one step toward the target
\* of the command this tick sends, and stays there once it has reached it.
\* The loop runs on: a tick that can be taken is taken.
\* ------------------------------------------------------------------------

OscillationTolerances == {0, PositionFromMillimeters(1)}

OscillationStrokeParams ==
    {[StrokeParamsNew EXCEPT
        !.enabled = TRUE,
        !.stopped = FALSE,
        !.start = start,
        !.end = end,
        !.direction_change_tolerance = tolerance] :
     start \in PlannerPositions, end \in PlannerPositions,
     tolerance \in OscillationTolerances}

InitOscillation ==
    /\ stroke_params \in OscillationStrokeParams
    /\ stroke_limits \in
           {[Limits(InputOne, InputOne, InputOne) EXCEPT !.stroke_limit = stroke] :
            stroke \in PlannerPositions}
    /\ stroke_params.start <= stroke_params.end
    /\ stroke_params.end <= stroke_limits.stroke_limit
    /\ last_response = None
    /\ last_state = PlainState("NotReadyToSwitchOn")
    /\ control_flags = {}
    /\ acknowledge_error = TRUE
    /\ moving_forwards = FALSE
    /\ request = None
    /\ tick_result = "none"
    /\ loop_message_count = 0
    /\ loop_error_history = << >>
    /\ loop_duration_sum = 0
    /\ loop_duration_min = DURATION_MAX
    /\ loop_duration_max = 0
    /\ last_loop_report = 0
    /\ next_tick = LoopInterval
    /\ report = None
    /\ window = << >>
    /\ pc = "running"
    /\ codec = None
    /\ threads = None
    /\ clock = None

\* The drive's demand position one step nearer to the target.
MoveToward(demand_position, target) ==
    IF demand_position < target
    THEN CHOOSE p \in PlannerPositions :
             /\ p > demand_position
             /\ \A q \in PlannerPositions : q > demand_position => p <= q
    ELSE IF demand_position > target
    THEN CHOOSE p \in PlannerPositions :
             /\ p < demand_position
             /\ \A q \in PlannerPositions : q < demand_position => p >= q
    ELSE demand_position

\* The demand positions the drive can report in this tick: any before it
\* has reported one, afterwards the one a step nearer to the target that
\* the planner commands in this tick.
NextDemandPositions ==
    IF Observing
    THEN {MoveToward(ObservedDemandPosition,
                     GetMotionCommandForStrokeParams(
                         stroke_limits, stroke_params, moving_forwards,
                         ObservedDemandPosition).command.target_position)}
    ELSE PlannerPositions

OscillationTick ==
    \E demand_position \in NextDemandPositions :
    \E outcome \in {Answer(143, 8, demand_position)} :
        LoopIteration(outcome, TickDuration, 0)

NextOscillation == OscillationTick

SpecOscillation ==
    InitOscillation /\ [][NextOscillation]_vars /\ WF_vars(OscillationTick)

\* The last request carries a GoToPosition toward this target.
CommandsToward(target) ==
    /\ IsSome(request)
    /\ IsSome(SentMotionCommand)
    /\ SentCommand.id = "VaiGoToPos"
    /\ SentCommand.target_position = target

\* C12: under the conditions of SpecOscillation the latch is forwards
\* infinitely often and backwards infinitely often, and the commands toward
\* the start target and toward the end target are both issued infinitely
\* often.
C12_OscillatesForever ==
    /\ []<>(moving_forwards = TRUE)
    /\ []<>(moving_forwards = FALSE)
    /\ []<>CommandsToward(ForwardsTarget)
    /\ []<>CommandsToward(BackwardsTarget)

\* The oscillation of a loop that never panics: in a build without overflow
\* checks the loop runs on with the wrapped threshold.
OscillatesForeverUnlessPanic ==
    <>(pc = "panicked") \/ C12_OscillatesForever

\* Neither reversal test leaves the i32 range.
ReversalTestsInRange ==
    /\ ~SubOverflows(ForwardsTarget, Tolerance)
    /\ ~AddOverflows(BackwardsTarget, Tolerance)

\* Where the reversal tests stay in the i32 range the stroke oscillates.
OscillatesForeverInRange ==
    ReversalTestsInRange => C12_OscillatesForever

\* The latch is forwards, the demand position has reached the forwards
\* target, and the last tick commanded that target again: the reversal test
\* of that tick did not hold.
C12_Stuck ==
    /\ moving_forwards
    /\ CommandsToward(ForwardsTarget)
    /\ Observing
    /\ ObservedDemandPosition = ForwardsTarget
    /\ ~ForwardsReached(ObservedDemandPosition, ForwardsTarget, Tolerance)

\* ------------------------------------------------------------------------
\* The specifications of the codec: one call of to_wire, of from_wire or of
\* State::read_from on an input drawn from a bounded set.  The connection
\* is as DriveConnection::new leaves it and takes no step.
\* ------------------------------------------------------------------------

connection_vars ==
    << stroke_params, last_response, stroke_limits, last_state, control_flags,
       acknowledge_error, moving_forwards, request, tick_result,
       loop_message_count, loop_error_history, loop_duration_sum,
       loop_duration_min, loop_duration_max, last_loop_report, next_tick,
       report, window, pc, clock >>

Constructed ==
    /\ stroke_params = StrokeParamsNew
    /\ last_response = None
    /\ stroke_limits = Limits(InputOne, InputOne, InputOne)
    /\ last_state = PlainState("NotReadyToSwitchOn")
    /\ control_flags = {}
    /\ acknowledge_error = TRUE
    /\ moving_forwards = FALSE
    /\ request = None
    /\ tick_result = "none"
    /\ loop_message_count = 0
    /\ loop_error_history = << >>
    /\ loop_duration_sum = 0
    /\ loop_duration_min = DURATION_MAX
    /\ loop_duration_max = 0
    /\ last_loop_report = 0
    /\ next_tick = LoopInterval
    /\ report = None
    /\ window = << >>
    /\ pc = "running"
    /\ clock = None

\* The lengths of a buffer handed to to_wire or from_wire.
BufferLengths == 0 .. BUFFER_SIZE

\* The Requests handed to to_wire: each optional field absent or present.
Requests ==
    [control_flags : {None, Some({}), Some({"SWITCH_ON"})},
     motion_command : {None, Some([count |-> 1, command |-> VaiStop(1)])},
     realtime_configuration : {None, Some(<< 0, 0, 0, 0 >>)},
     response_flags : {{}, RequestedResponseFlags}]

InitRequest ==
    /\ Constructed
    /\ threads = None
    /\ codec \in [op : {"to_wire"}, input : [request : Requests, len : BufferLengths],
                  done : {FALSE}, output : {None}]

\* Request::to_wire is called: the flags word, the fields it writes and the
\* position of the Writer it returns (-1 for an error).
ToWireCall ==
    /\ codec.op = "to_wire"
    /\ ~codec.done
    /\ codec' = [codec EXCEPT
                   !.done = TRUE,
                   !.output = [pos |-> ToWire(codec.input.request, codec.input.len),
                               flags |-> Flags(codec.input.request),
                               fields |-> WrittenFields(codec.input.request)]]
    /\ UNCHANGED << connection_vars, threads >>

NextRequest == ToWireCall

SpecRequest == InitRequest /\ [][NextRequest]_vars

\* The frames handed to from_wire: any set of response flags, the request
\* flags with and without REALTIME_CONFIGURATION, any length.
ResponseFrames ==
    {[Frame(response_flags, length, 143, 8, PositionFromMillimeters(-1))
        EXCEPT !.request_flags = request_flags] :
     response_flags \in SUBSET {ResponseFields[i] : i \in 1 .. Len(ResponseFields)},
     length \in BufferLengths,
     request_flags \in {{"CONTROL_FLAGS"}, {"CONTROL_FLAGS", "REALTIME_CONFIGURATION"}}}

InitResponse ==
    /\ Constructed
    /\ threads = None
    /\ codec \in [op : {"from_wire"}, input : ResponseFrames,
                  done : {FALSE}, output : {None}]

\* Response::from_wire is called: the Result and the bytes the Reader has
\* consumed when it returns Ok.
FromWireCall ==
    /\ codec.op = "from_wire"
    /\ ~codec.done
    /\ \E decoded \in {FromWire(codec.input)} :
         codec' = [codec EXCEPT
                     !.done = TRUE,
                     !.output = [ok |-> decoded.ok, value |-> decoded.value,
                                 pos |-> FromWireEnd(codec.input)]]
    /\ UNCHANGED << connection_vars, threads >>

NextResponse == FromWireCall

SpecResponse == InitResponse /\ [][NextResponse]_vars

Bytes == 0 .. 255

InitState ==
    /\ Constructed
    /\ threads = None
    /\ codec \in [op : {"state"}, input : [sub_state : Bytes, main_state : Bytes],
                  done : {FALSE}, output : {None}]

\* State::read_from is called on the two bytes.
StateReadCall ==
    /\ codec.op = "state"
    /\ ~codec.done
    /\ codec' = [codec EXCEPT
                   !.done = TRUE,
                   !.output = StateFromWire(codec.input.sub_state,
                                            codec.input.main_state)]
    /\ UNCHANGED << connection_vars, threads >>

NextState == StateReadCall

SpecState == InitState /\ [][NextState]_vars

\* to_wire has returned.
Encoded == codec.op = "to_wire" /\ codec.done

\* The optional fields of the encoded Request that hold a value.
PresentFields ==
    {f \in {"CONTROL_FLAGS", "MOTION_COMMAND", "REALTIME_CONFIGURATION"} :
        \/ f = "CONTROL_FLAGS" /\ codec.input.request.control_flags # None
        \/ f = "MOTION_COMMAND" /\ codec.input.request.motion_command # None
        \/ f = "REALTIME_CONFIGURATION"
               /\ codec.input.request.realtime_configuration # None}

\* The bytes of a set of fields of a Request.
RequestWidth(fields) ==
    (IF "CONTROL_FLAGS" \in fields THEN 2 ELSE 0)
    + (IF "MOTION_COMMAND" \in fields THEN 32 ELSE 0)
    + (IF "REALTIME_CONFIGURATION" \in fields THEN 8 ELSE 0)

\* C17: the request flags word to_wire writes holds the bits of exactly the
\* optional fields that hold a value, and a field's bytes are written iff
\* its bit is set: the fields written are those of the word, and a
\* successful to_wire has written the two words and those fields' bytes.
C17_FlagsMatchFields ==
    Encoded =>
        /\ codec.output.flags = PresentFields
        /\ \A f \in {"CONTROL_FLAGS", "MOTION_COMMAND", "REALTIME_CONFIGURATION"} :
               f \in codec.output.flags <=>
                   \E i \in 1 .. Len(codec.output.fields) : codec.output.fields[i] = f
        /\ codec.output.pos # -1 =>
               codec.output.pos = 8 + RequestWidth(codec.output.flags)

\* to_wire has written a Request with a realtime configuration and without
\* a motion command.
C17_Witness ==
    /\ Encoded
    /\ codec.output.pos = 18
    /\ codec.output.flags = {"CONTROL_FLAGS", "REALTIME_CONFIGURATION"}
    /\ codec.output.fields = << "CONTROL_FLAGS", "REALTIME_CONFIGURATION" >>

\* from_wire has returned.
Decoded == codec.op = "from_wire" /\ codec.done

\* The bytes of a set of fields of a Response.
ResponseWidth(fields) ==
    (IF "STATUS_FLAGS" \in fields THEN 2 ELSE 0)
    + (IF "STATE" \in fields THEN 2 ELSE 0)
    + (IF "ACTUAL_POSITION" \in fields THEN 4 ELSE 0)
    + (IF "DEMAND_POSITION" \in fields THEN 4 ELSE 0)
    + (IF "CURRENT" \in fields THEN 2 ELSE 0)
    + (IF "WARNING_FLAGS" \in fields THEN 2 ELSE 0)
    + (IF "ERROR_CODE" \in fields THEN 2 ELSE 0)
    + (IF "MONITORING_CHANNEL" \in fields THEN 16 ELSE 0)
    + (IF "REALTIME_CONFIGURATION" \in fields THEN 8 ELSE 0)

\* The request flags of the decoded frame hold REALTIME_CONFIGURATION.
RequestHasRtc == "REALTIME_CONFIGURATION" \in codec.input.request_flags

\* The response flags of the decoded frame hold REALTIME_CONFIGURATION.
ResponseHasRtc == "REALTIME_CONFIGURATION" \in codec.input.response_flags

\* C18: when from_wire returns a Response, its realtime_configuration is
\* present iff both flag words hold REALTIME_CONFIGURATION; where the
\* request flags do not hold it, the bytes consumed are those of the two
\* words and of the other fields of the response flags.
C18_RealtimeConfigurationGated ==
    (Decoded /\ codec.output.ok) =>
        /\ codec.output.value.realtime_configuration # None
               <=> (RequestHasRtc /\ ResponseHasRtc)
        /\ ~RequestHasRtc =>
               /\ codec.output.value.realtime_configuration = None
               /\ codec.output.pos =
                      8 + ResponseWidth(codec.input.response_flags
                                            \ {"REALTIME_CONFIGURATION"})

\* from_wire has returned a Response without a realtime configuration for a
\* frame whose response flags alone hold the bit, and which has no bytes
\* for it.
C18_Witness ==
    /\ Decoded
    /\ codec.output.ok
    /\ ResponseHasRtc
    /\ ~RequestHasRtc
    /\ codec.output.value.realtime_configuration = None
    /\ codec.output.value.state # None
    /\ codec.input.length = codec.output.pos

\* The response flags from_wire reads the fields of.
SelectedFields ==
    IF RequestHasRtc THEN codec.input.response_flags
    ELSE codec.input.response_flags \ {"REALTIME_CONFIGURATION"}

\* C19: from_wire on a buffer shorter than 8 bytes plus the widths of the
\* selected fields returns an error and no Response, and it returns a
\* Response only when every selected field was read in full.
C19_ShortBufferIsError ==
    Decoded =>
        /\ codec.input.length < 8 + ResponseWidth(SelectedFields) =>
               /\ ~codec.output.ok
               /\ codec.output.value = None
        /\ codec.output.ok =>
               /\ codec.output.pos = 8 + ResponseWidth(SelectedFields)
               /\ codec.output.pos <= codec.input.length

\* from_wire has returned an error for a buffer one byte short of its
\* selected fields.
C19_Witness ==
    /\ Decoded
    /\ ~codec.output.ok
    /\ codec.output.value = None
    /\ SelectedFields = RequestedResponseFlags
    /\ codec.input.length = 8 + ResponseWidth(SelectedFields) - 1

\* State::read_from has returned.
StateRead == codec.op = "state" /\ codec.done

\* The main_state bytes of the decoder's table.
TableMainStates == (0 .. 6) \cup (8 .. 21)

\* C20: for every (sub_state, main_state) the decoder returns a State:
\* main_state 8 gives OperationEnabled with the count sub_state mod 16 and
\* event_handler, motion_active, in_target_position, homed the bits 4, 5, 6
\* and 7 of sub_state; a main_state outside the table (7 and 22..255) gives
\* Unknown with both raw bytes.
C20_StateDecodeTable ==
    StateRead =>
        LET sub == codec.input.sub_state
            main == codec.input.main_state
            out == codec.output
        IN  /\ main = 8 =>
                  /\ out.tag = "OperationEnabled"
                  /\ out.motion_command_count = sub % 16
                  /\ out.event_handler = ((sub \div 16) % 2 = 1)
                  /\ out.motion_active = ((sub \div 32) % 2 = 1)
                  /\ out.in_target_position = ((sub \div 64) % 2 = 1)
                  /\ out.homed = (sub >= 128)
            /\ (main = 8 /\ sub = 0) =>
                  out = MkState("OperationEnabled", None, 0, FALSE, FALSE, FALSE,
                                FALSE, FALSE, 0, 0)
            /\ (main = 8 /\ sub = 255) =>
                  out = MkState("OperationEnabled", None, 15, TRUE, TRUE, TRUE,
                                TRUE, FALSE, 0, 0)
            /\ main \notin TableMainStates =>
                  /\ out.tag = "Unknown"
                  /\ out.main_state = main
                  /\ out.sub_state = sub
            /\ main \in TableMainStates => out.tag # "Unknown"

\* The decoder has returned OperationEnabled with count 15 and every bit
\* set for sub_state 0xFF.
C20_Witness ==
    /\ StateRead
    /\ codec.input.main_state = 8
    /\ codec.input.sub_state = 255
    /\ codec.output.tag = "OperationEnabled"
    /\ codec.output.motion_command_count = 15
    /\ codec.output.event_handler
    /\ codec.output.homed

\* ------------------------------------------------------------------------
\* The specification of the threads: loop_tick with the report of
\* start_loop, run_input_loop and run_hidapi_loop taken statement by
\* statement, with the two Mutexes.
\* `threads` holds who owns each Mutex ("free" or the thread), where each
\* thread stands, the threads' locals, and two histories: `snapshot`, the
\* StrokeParams the current tick has read, and `committed`, the StrokeParams
\* as the last completed update of an input thread left them.
\* ------------------------------------------------------------------------

\* What start_loop keeps between ticks, the limits and the codec: no
\* statement of the three functions writes them.
driver_vars ==
    << stroke_limits, tick_result, loop_message_count, loop_error_history,
       loop_duration_sum, loop_duration_min, loop_duration_max,
       last_loop_report, next_tick, report, window, pc, codec, clock >>

\* The fields of the connection that loop_tick writes.
tick_vars ==
    << last_state, control_flags, acknowledge_error, moving_forwards, request >>

\* A faulty Mutex that hands out its guard while another thread holds one.
CanLockHeld(owner) == TRUE

\* Mutex::lock returns when no thread holds the guard; until then the
\* caller waits.
CanLock(owner) == owner = "free"

\* A faulty tick that matches on the Response behind its guard in place of
\* a clone, so that the guard lives on through the match.
MatchUnderGuard(owner) == owner

\* The MutexGuard of `self.last_response.lock().unwrap().clone()` is a
\* temporary of the block, dropped before the match begins.
CloneAndDrop(owner) == "free"

\* A faulty arm whose guard lives on to the end of loop_tick.
KeepGuard(owner) == owner

\* The MutexGuard of an arm is dropped at the end of the arm's block.
DropGuard(owner) == "free"

\* The values typed after `v` (2 m/s) and the parameters a HID report
\* carries (the defaults, powered).
ThreadInputValues == {2 * InputOne}

ThreadCommands == {"p", "v"}

HidStrokeParams == {[StrokeParamsNew EXCEPT !.enabled = TRUE]}

\* What recv returns to the tick: a homed OperationEnabled, a
\* ReadyToSwitchOn, or an error.
ThreadOutcomes ==
    {[kind |-> "recv_error"],
     Answer(143, 8, PositionFromMillimeters(-1)),
     Answer(143, 2, PositionFromMillimeters(-1))}

InitThreads ==
    /\ Constructed
    /\ codec = None
    /\ threads = [params_lock |-> "free", response_lock |-> "free",
                  loop |-> "lock_response", console |-> "read_line",
                  hid |-> "lock_response",
                  cloned |-> None, frame |-> None, line |-> None,
                  new_stroke_params |-> None,
                  snapshot |-> None, committed |-> StrokeParamsNew]

\* The arm of the match that the cloned Response selects locks StrokeParams.
ArmLocksParams(response) ==
    /\ IsSome(response)
    /\ IsSome(Unwrap(response).state)
    /\ IsSome(Unwrap(response).demand_position)
    /\ \/ Unwrap(Unwrap(response).state).tag = "ReadyToSwitchOn"
       \/ /\ Unwrap(Unwrap(response).state).tag = "OperationEnabled"
          /\ Unwrap(Unwrap(response).state).homed

\* loop_tick: self.last_response.lock().
LoopLockResponse ==
    /\ threads.loop = "lock_response"
    /\ CanLock(threads.response_lock)
    /\ threads' = [threads EXCEPT !.response_lock = "loop", !.loop = "clone",
                                  !.snapshot = None]
    /\ UNCHANGED << stroke_params, last_response, tick_vars, driver_vars >>

\* loop_tick: the clone, and the guard dropped at the end of the block.
LoopCloneResponse ==
    /\ threads.loop = "clone"
    /\ threads' = [threads EXCEPT
                     !.response_lock = CloneAndDrop(threads.response_lock),
                     !.loop = "match", !.cloned = last_response]
    /\ UNCHANGED << stroke_params, last_response, tick_vars, driver_vars >>

\* loop_tick: the match reaches an arm.  An arm that reads StrokeParams goes
\* on to lock them; any other arm runs, and the request is built.
LoopMatch ==
    /\ threads.loop = "match"
    /\ IF ArmLocksParams(threads.cloned)
       THEN /\ threads' = [threads EXCEPT !.loop = "lock_params"]
            /\ UNCHANGED tick_vars
       ELSE \E sm \in {EvaluateResponse(threads.cloned, control_flags,
                                        acknowledge_error, moving_forwards,
                                        stroke_limits, StrokeParamsNew)} :
              /\ last_state' = ObservedState(threads.cloned, last_state)
              /\ control_flags' = sm.control_flags
              /\ acknowledge_error' = sm.acknowledge_error
              /\ moving_forwards' = sm.moving_forwards
              /\ request' = Some(BuildRequest(sm.control_flags, sm.motion_command))
              /\ threads' = [threads EXCEPT !.loop = "send"]
    /\ UNCHANGED << stroke_params, last_response, driver_vars >>

\* loop_tick: self.stroke_params.lock() in the ReadyToSwitchOn arm and in
\* the homed OperationEnabled arm.
LoopLockParams ==
    /\ threads.loop = "lock_params"
    /\ CanLock(threads.params_lock)
    /\ threads' = [threads EXCEPT !.params_lock = "loop", !.loop = "arm"]
    /\ UNCHANGED << stroke_params, last_response, tick_vars, driver_vars >>

\* loop_tick: the arm runs on the StrokeParams behind its guard, the guard
\* is dropped at the end of the arm, and the request is built.
LoopArm ==
    /\ threads.loop = "arm"
    /\ \E sm \in {EvaluateResponse(threads.cloned, control_flags, acknowledge_error,
                                   moving_forwards, stroke_limits, stroke_params)} :
         /\ last_state' = ObservedState(threads.cloned, last_state)
         /\ control_flags' = sm.control_flags
         /\ acknowledge_error' = sm.acknowledge_error
         /\ moving_forwards' = sm.moving_forwards
         /\ request' = Some(BuildRequest(sm.control_flags, sm.motion_command))
    /\ threads' = [threads EXCEPT !.params_lock = DropGuard(threads.params_lock),
                                  !.loop = "send",
                                  !.snapshot = Some(stroke_params)]
    /\ UNCHANGED << stroke_params, last_response, driver_vars >>

\* loop_tick: to_wire and socket.send; an error ends the tick.
LoopSend(sent) ==
    /\ threads.loop = "send"
    /\ threads' = [threads EXCEPT !.loop = IF sent THEN "recv" ELSE "iteration_end"]
    /\ UNCHANGED << stroke_params, last_response, tick_vars, driver_vars >>

\* loop_tick: socket.recv returns a frame, or an error that ends the tick.
LoopRecv(outcome) ==
    /\ threads.loop = "recv"
    /\ threads' = [threads EXCEPT
                     !.loop = IF outcome.kind = "frame" THEN "decode"
                              ELSE "iteration_end",
                     !.frame = IF outcome.kind = "frame" THEN Some(outcome) ELSE None]
    /\ UNCHANGED << stroke_params, last_response, tick_vars, driver_vars >>

\* loop_tick: from_wire; an error ends the tick.
LoopDecode ==
    /\ threads.loop = "decode"
    /\ threads' = [threads EXCEPT
                     !.loop = IF FromWire(Unwrap(threads.frame)).ok
                              THEN "lock_store" ELSE "iteration_end"]
    /\ UNCHANGED << stroke_params, last_response, tick_vars, driver_vars >>

\* loop_tick: self.last_response.lock() for the store.
LoopLockStore ==
    /\ threads.loop = "lock_store"
    /\ CanLock(threads.response_lock)
    /\ threads' = [threads EXCEPT !.response_lock = "loop", !.loop = "store"]
    /\ UNCHANGED << stroke_params, last_response, tick_vars, driver_vars >>

\* loop_tick: the Response is stored, the guard dropped, and the tick ends.
LoopStore ==
    /\ threads.loop = "store"
    /\ last_response' = Some(FromWire(Unwrap(threads.frame)).value)
    /\ threads' = [threads EXCEPT !.response_lock = "free",
                                  !.loop = "iteration_end", !.frame = None]
    /\ UNCHANGED << stroke_params, tick_vars, driver_vars >>

\* start_loop: the tick has returned.  When the report interval has passed
\* the report is printed; otherwise the loop sleeps and the next tick begins.
LoopIterationEnd(report_due) ==
    /\ threads.loop = "iteration_end"
    /\ threads' = [threads EXCEPT
                     !.loop = IF report_due THEN "lock_status" ELSE "lock_response"]
    /\ UNCHANGED << stroke_params, last_response, tick_vars, driver_vars >>

\* print_drive_status: self.last_response.lock().
LoopLockStatus ==
    /\ threads.loop = "lock_status"
    /\ CanLock(threads.response_lock)
    /\ threads' = [threads EXCEPT !.response_lock = "loop", !.loop = "print_status"]
    /\ UNCHANGED << stroke_params, last_response, tick_vars, driver_vars >>

\* print_drive_status: the status is printed behind the guard, which is
\* dropped when the function returns.
LoopPrintStatus ==
    /\ threads.loop = "print_status"
    /\ threads' = [threads EXCEPT !.response_lock = "free",
                                  !.loop = "lock_print_params"]
    /\ UNCHANGED << stroke_params, last_response, tick_vars, driver_vars >>

\* start_loop: self.stroke_params.lock() in the block of the report.
LoopLockPrintParams ==
    /\ threads.loop = "lock_print_params"
    /\ CanLock(threads.params_lock)
    /\ threads' = [threads EXCEPT !.params_lock = "loop", !.loop = "print_params"]
    /\ UNCHANGED << stroke_params, last_response, tick_vars, driver_vars >>

\* start_loop: the parameters are printed, the guard is dropped at the end
\* of the block, and the loop goes on to its next tick.
LoopPrintParams ==
    /\ threads.loop = "print_params"
    /\ threads' = [threads EXCEPT !.params_lock = "free", !.loop = "lock_response"]
    /\ UNCHANGED << stroke_params, last_response, tick_vars, driver_vars >>

\* run_input_loop: read_line returns a line with a known command.
ConsoleReadLine(command, v) ==
    /\ threads.console = "read_line"
    /\ threads' = [threads EXCEPT !.console = "lock",
                                  !.line = Some(<< command, v >>)]
    /\ UNCHANGED << stroke_params, last_response, tick_vars, driver_vars >>

\* run_input_loop: stroke_params.lock().
ConsoleLock ==
    /\ threads.console = "lock"
    /\ CanLock(threads.params_lock)
    /\ threads' = [threads EXCEPT !.params_lock = "console", !.console = "apply"]
    /\ UNCHANGED << stroke_params, last_response, tick_vars, driver_vars >>

\* run_input_loop: the arm of the command.  `v` makes two assignments, of
\* which this is the first; `p` makes one, which completes the update.
ConsoleApply ==
    /\ threads.console = "apply"
    /\ \E line \in {Unwrap(threads.line)} :
         IF line[1] = "v"
         THEN /\ stroke_params' =
                     [stroke_params EXCEPT
                        !.forwards_velocity = VelocityFromMetersPerSecondF64(line[2])]
              /\ threads' = [threads EXCEPT !.console = "apply_rest"]
         ELSE \E applied \in {ApplyConsoleCommand(stroke_params, line[1], line[2])} :
              /\ stroke_params' = applied
              /\ threads' = [threads EXCEPT !.console = "print",
                                            !.committed = applied]
    /\ UNCHANGED << last_response, tick_vars, driver_vars >>

\* run_input_loop: the second assignment of `v`, which completes the update.
ConsoleApplyRest ==
    /\ threads.console = "apply_rest"
    /\ \E applied \in {[stroke_params EXCEPT
                          !.backwards_velocity = stroke_params.forwards_velocity]} :
         /\ stroke_params' = applied
         /\ threads' = [threads EXCEPT !.console = "print", !.committed = applied]
    /\ UNCHANGED << last_response, tick_vars, driver_vars >>

\* run_input_loop: the parameters are printed and the guard is dropped at
\* the end of the iteration.
ConsolePrint ==
    /\ threads.console = "print"
    /\ threads' = [threads EXCEPT !.params_lock = "free", !.console = "read_line",
                                  !.line = None]
    /\ UNCHANGED << stroke_params, last_response, tick_vars, driver_vars >>

\* run_hidapi_loop: last_response.lock().
HidLockResponse ==
    /\ threads.hid = "lock_response"
    /\ CanLock(threads.response_lock)
    /\ threads' = [threads EXCEPT !.response_lock = "hid", !.hid = "report"]
    /\ UNCHANGED << stroke_params, last_response, tick_vars, driver_vars >>

\* run_hidapi_loop: the report is built from the stored Response and the
\* guard is dropped.
HidBuildReport ==
    /\ threads.hid = "report"
    /\ threads' = [threads EXCEPT !.response_lock = "free", !.hid = "read"]
    /\ UNCHANGED << stroke_params, last_response, tick_vars, driver_vars >>

\* run_hidapi_loop: device.write, then read_timeout returns a report with
\* StrokeParams, or nothing (the loop starts over).
HidRead(received) ==
    /\ threads.hid = "read"
    /\ threads' = [threads EXCEPT
                     !.hid = IF IsSome(received) THEN "lock" ELSE "lock_response",
                     !.new_stroke_params = received]
    /\ UNCHANGED << stroke_params, last_response, tick_vars, driver_vars >>

\* run_hidapi_loop: stroke_params.lock().
HidLock ==
    /\ threads.hid = "lock"
    /\ CanLock(threads.params_lock)
    /\ threads' = [threads EXCEPT !.params_lock = "hid", !.hid = "compare"]
    /\ UNCHANGED << stroke_params, last_response, tick_vars, driver_vars >>

\* run_hidapi_loop: equal parameters drop the guard and start over; new
\* ones are printed.
HidCompare ==
    /\ threads.hid = "compare"
    /\ threads' = IF stroke_params = Unwrap(threads.new_stroke_params)
                  THEN [threads EXCEPT !.params_lock = "free",
                                       !.hid = "lock_response",
                                       !.new_stroke_params = None]
                  ELSE [threads EXCEPT !.hid = "assign"]
    /\ UNCHANGED << stroke_params, last_response, tick_vars, driver_vars >>

\* run_hidapi_loop: the new parameters are assigned, which completes the
\* update, and the guard is dropped.
HidAssign ==
    /\ threads.hid = "assign"
    /\ stroke_params' = Unwrap(threads.new_stroke_params)
    /\ threads' = [threads EXCEPT !.params_lock = "free", !.hid = "lock_response",
                                  !.new_stroke_params = None,
                                  !.committed = Unwrap(threads.new_stroke_params)]
    /\ UNCHANGED << last_response, tick_vars, driver_vars >>

LoopThread ==
    \/ LoopLockResponse
    \/ LoopCloneResponse
    \/ LoopMatch
    \/ LoopLockParams
    \/ LoopArm
    \/ \E sent \in BOOLEAN : LoopSend(sent)
    \/ \E outcome \in ThreadOutcomes : LoopRecv(outcome)
    \/ LoopDecode
    \/ LoopLockStore
    \/ LoopStore
    \/ \E report_due \in BOOLEAN : LoopIterationEnd(report_due)
    \/ LoopLockStatus
    \/ LoopPrintStatus
    \/ LoopLockPrintParams
    \/ LoopPrintParams

ConsoleThread ==
    \/ \E command \in ThreadCommands, v \in ThreadInputValues :
           ConsoleReadLine(command, v)
    \/ ConsoleLock
    \/ ConsoleApply
    \/ ConsoleApplyRest
    \/ ConsolePrint

HidThread ==
    \/ HidLockResponse
    \/ HidBuildReport
    \/ \E received \in {None} \cup {Some(sp) : sp \in HidStrokeParams} :
           HidRead(received)
    \/ HidLock
    \/ HidCompare
    \/ HidAssign

NextThreads == LoopThread \/ ConsoleThread \/ HidThread

SpecThreads == InitThreads /\ [][NextThreads]_vars

\* C14: the control thread never waits for the StrokeParams: whenever a
\* tick stands at its stroke_params.lock(), no other thread holds the guard.
C14_TickNeverBlocks ==
    threads.loop = "lock_params" => CanLock(threads.params_lock)

\* A tick stands at its stroke_params.lock() while the console thread
\* prints the parameters under its guard.
C14_Blocked ==
    /\ threads.loop = "lock_params"
    /\ threads.params_lock = "console"
    /\ threads.console = "print"

\* C15: while the control thread sends, waits for the answer and decodes
\* it, it holds neither the StrokeParams guard nor the last-Response guard.
C15_NoLockAcrossNetwork ==
    threads.loop \in {"send", "recv", "decode"} =>
        /\ threads.params_lock # "loop"
        /\ threads.response_lock # "loop"

\* The control thread waits for the answer of a tick that has read the
\* StrokeParams, and the console thread holds their guard meanwhile.
C15_Witness ==
    /\ threads.loop = "recv"
    /\ threads.snapshot # None
    /\ threads.params_lock = "console"

\* The step is the arm of a tick reading the StrokeParams.
TickReadsParams == threads.loop = "arm" /\ threads'.loop = "send"

\* C16: a tick that reads the StrokeParams reads them as the most recently
\* completed update of an input thread left them, never between the two
\* assignments of the console's `v`.
C16_ConsistentSnapshot ==
    [][TickReadsParams =>
          /\ threads'.snapshot = Some(threads.committed)
          /\ threads.console # "apply_rest"
          /\ Unwrap(threads'.snapshot).forwards_velocity
                 = Unwrap(threads'.snapshot).backwards_velocity]_vars

\* A tick has read the StrokeParams after `v 2` and `p` were completed,
\* while the console is at work on its next line.
C16_Witness ==
    /\ threads.snapshot # None
    /\ Unwrap(threads.snapshot).enabled
    /\ Unwrap(threads.snapshot).forwards_velocity = VelocityFromMetersPerSecond(2)
    /\ Unwrap(threads.snapshot).backwards_velocity = VelocityFromMetersPerSecond(2)
    /\ threads.console \in {"lock", "apply", "apply_rest", "print"}

\* ------------------------------------------------------------------------
\* The specification of the command counter: the drive answers every tick
\* as a homed OperationEnabled with any motion_command_count, and the power
\* is toggled at the console.
\* ------------------------------------------------------------------------

CountAnswers ==
    {Answer(128 + count, 8, PositionFromMillimeters(-1)) : count \in 0 .. 15}

CountTick == \E outcome \in CountAnswers : LoopIteration(outcome, TickDuration, 0)

CountConsole == ConsoleInput("p", InputOne)

NextCount == CountTick \/ CountConsole

SpecCount == Init /\ [][NextCount]_vars

\* C25: a tick that observes a homed OperationEnabled with count c while the
\* stroke is enabled attaches a motion command whose count is (c + 1) mod 16:
\* it is in 0..15, differs from c, and is 0 for c = 15.
C25_CounterIncrementsMod16 ==
    [][PlannerCalled =>
          /\ IsSome(SentMotionCommand')
          /\ Unwrap(SentMotionCommand').count
                 = (ObservedDriveState.motion_command_count + 1) % 16
          /\ Unwrap(SentMotionCommand').count \in 0 .. 15
          /\ Unwrap(SentMotionCommand').count
                 # ObservedDriveState.motion_command_count
          /\ ObservedDriveState.motion_command_count = 15
                 => Unwrap(SentMotionCommand').count = 0]_vars

\* A tick has observed count 15 and attached a command with count 0.
C25_Witness ==
    /\ IsSome(request)
    /\ IsSome(SentMotionCommand)
    /\ Unwrap(SentMotionCommand).count = 0
    /\ last_state.tag = "OperationEnabled"
    /\ last_state.motion_command_count = 15

\* The control flags of the last request.
SentControlFlags == Unwrap(request).control_flags

\* C26: a tick that observes a homed OperationEnabled while the stroke is
\* disabled removes SWITCH_ON from the control flags and keeps the others,
\* attaches no motion command and leaves the direction latch as it was.
C26_DisabledRemovesSwitchOn ==
    [][(TickTaken /\ Observes("OperationEnabled") /\ ObservedDriveState.homed
          /\ ~stroke_params.enabled) =>
          /\ control_flags' = control_flags \ {"SWITCH_ON"}
          /\ SentControlFlags' = Some(control_flags')
          /\ ~IsSome(SentMotionCommand')
          /\ moving_forwards' = moving_forwards]_vars

\* A tick has observed a homed OperationEnabled with the stroke disabled
\* and has left HOME alone in the flags it sent.
C26_Witness ==
    /\ IsSome(request)
    /\ ~IsSome(SentMotionCommand)
    /\ last_state.tag = "OperationEnabled"
    /\ last_state.homed
    /\ ~stroke_params.enabled
    /\ control_flags = {"HOME"}
    /\ SentControlFlags = Some({"HOME"})

\* C27: a tick that observes an OperationEnabled that is not homed adds HOME
\* to the control flags and keeps the others, and attaches no motion
\* command, with the stroke enabled or not.
C27_NotHomedAddsHome ==
    [][(TickTaken /\ Observes("OperationEnabled") /\ ~ObservedDriveState.homed) =>
          /\ control_flags' = control_flags \cup {"HOME"}
          /\ SentControlFlags' = Some(control_flags')
          /\ ~IsSome(SentMotionCommand')]_vars

\* A tick has observed an OperationEnabled that is not homed and has sent
\* HOME beside SWITCH_ON.
C27_Witness ==
    /\ IsSome(request)
    /\ ~IsSome(SentMotionCommand)
    /\ last_state.tag = "OperationEnabled"
    /\ ~last_state.homed
    /\ SentControlFlags = Some({"SWITCH_ON", "HOME"})

\* C28: a tick that observes Homing with finished set removes HOME from the
\* control flags and keeps the others; one that observes Homing with
\* finished clear leaves the control flags as they were.
C28_HomingFinishedRemovesHome ==
    [][(TickTaken /\ Observes("Homing")) =>
          /\ ObservedDriveState.finished =>
                 control_flags' = control_flags \ {"HOME"}
          /\ ~ObservedDriveState.finished => control_flags' = control_flags
          /\ SentControlFlags' = Some(control_flags')]_vars

\* A tick has observed a finished Homing and has sent SWITCH_ON without
\* HOME.
C28_Witness ==
    /\ IsSome(request)
    /\ last_state.tag = "Homing"
    /\ last_state.finished
    /\ SentControlFlags = Some({"SWITCH_ON"})

\* C29: a tick that observes NotReadyToSwitchOn leaves the control flags
\* empty and the two latches as they were.
C29_NotReadyClearsFlags ==
    [][(TickTaken /\ Observes("NotReadyToSwitchOn")) =>
          /\ control_flags' = {}
          /\ SentControlFlags' = Some({})
          /\ acknowledge_error' = acknowledge_error
          /\ moving_forwards' = moving_forwards]_vars

\* A tick has observed NotReadyToSwitchOn after the acknowledge latch was
\* cleared, and has sent no flags.
C29_Witness ==
    /\ IsSome(request)
    /\ last_state.tag = "NotReadyToSwitchOn"
    /\ ~acknowledge_error
    /\ control_flags = {}
    /\ SentControlFlags = Some({})

\* ------------------------------------------------------------------------
\* The specification of the states outside the transition table: the drive
\* answers with every state loop_tick has no arm for, and with the states
\* that set SWITCH_ON, HOME and the acknowledge latch; the power is toggled
\* at the console.
\* ------------------------------------------------------------------------

\* main_state bytes without an arm whatever the sub_state: SwitchOnDisabled,
\* SetupError, HardwareTests, ReadyToOperate, ClearanceCheck ... BrakeDelay,
\* and two bytes that decode to Unknown.
OtherMainStates == {1, 3, 5, 6, 7, 99} \cup (10 .. 21)

OtherAnswers ==
    {Answer(15, main_state, PositionFromMillimeters(-1)) :
        main_state \in OtherMainStates}
    \cup {Answer(3, 4, PositionFromMillimeters(-1)),
          Answer(0, 9, PositionFromMillimeters(-1)),
          Answer(143, 2, PositionFromMillimeters(-1)),
          Answer(15, 8, PositionFromMillimeters(-1))}

OtherTick == \E outcome \in OtherAnswers : LoopIteration(outcome, TickDuration, 0)

OtherConsole == ConsoleInput("p", InputOne)

NextOther == OtherTick \/ OtherConsole

SpecOther == Init /\ [][NextOther]_vars

\* The tags of the states without an arm.
OtherTags ==
    {"SwitchOnDisabled", "SetupError", "HardwareTests", "ReadyToOperate",
     "ClearanceCheck", "GoingToInitialPosition", "Aborting", "Freezing",
     "QuickStop", "GoingToPosition", "JoggingPositive", "JoggingNegative",
     "Linearizing", "PhaseSearch", "SpecialMode", "BrakeDelay", "Unknown"}

\* The next loop_tick observes a state outside the transition table.
ObservesOther ==
    /\ Observing
    /\ \/ ObservedDriveState.tag \in OtherTags
       \/ ObservedDriveState.tag = "Error" /\ ~acknowledge_error
       \/ ObservedDriveState.tag = "Homing" /\ ~ObservedDriveState.finished

\* C30: a tick that observes a state outside the transition table leaves
\* the control flags and the two latches as they were, and sends those
\* control flags and no motion command.
C30_OtherStatesChangeNothing ==
    [][(TickTaken /\ ObservesOther) =>
          /\ control_flags' = control_flags
          /\ acknowledge_error' = acknowledge_error
          /\ moving_forwards' = moving_forwards
          /\ SentControlFlags' = Some(control_flags)
          /\ ~IsSome(SentMotionCommand')]_vars

\* A tick has observed Unknown and has sent the flags SWITCH_ON and HOME it
\* held before.
C30_Witness ==
    /\ IsSome(request)
    /\ ~IsSome(SentMotionCommand)
    /\ last_state.tag = "Unknown"
    /\ last_state.main_state = 99
    /\ control_flags = {"SWITCH_ON", "HOME"}
    /\ SentControlFlags = Some({"SWITCH_ON", "HOME"})

\* ------------------------------------------------------------------------
\* The specification of the Velocity helpers: from_millimeters_per_second
\* and from_meters_per_second are called on the same speed, k m/s.
\* ------------------------------------------------------------------------

\* The speeds in m/s; 1000 * k mm/s is converted without overflow.
VelocityInputs == -100 .. 100

InitUnits ==
    /\ Constructed
    /\ threads = None
    /\ codec \in [op : {"velocity"}, input : VelocityInputs,
                  done : {FALSE}, output : {None}]

\* The two helpers are called on k m/s, and from_millimeters_per_second on
\* 1 mm/s.
VelocityCall ==
    /\ codec.op = "velocity"
    /\ ~codec.done
    /\ codec' = [codec EXCEPT
                   !.done = TRUE,
                   !.output =
                       [from_millimeters |->
                            VelocityFromMillimetersPerSecond(1000 * codec.input),
                        from_meters |-> VelocityFromMetersPerSecond(codec.input),
                        one_millimeter |-> VelocityFromMillimetersPerSecond(1)]]
    /\ UNCHANGED << connection_vars, threads >>

NextUnits == VelocityCall

SpecUnits == InitUnits /\ [][NextUnits]_vars

\* C24: Velocity::from_millimeters_per_second(1000 * k) equals
\* Velocity::from_meters_per_second(k), and from_millimeters_per_second(1)
\* is 1000 units (1 um/s each).
C24_VelocityHelpersAgree ==
    (codec.op = "velocity" /\ codec.done) =>
        /\ codec.output.from_millimeters = codec.output.from_meters
        /\ codec.output.one_millimeter = 1000

\* 1000 mm/s and 1 m/s have been converted to different Velocity values.
C24_Disagree ==
    /\ codec.op = "velocity"
    /\ codec.done
    /\ codec.input = 1
    /\ codec.output.from_millimeters = 10000000
    /\ codec.output.from_meters = 1000000

\* ------------------------------------------------------------------------
\* Writer and Reader with their buffers: a cursor is [ok, idx, buf], and a
\* Reader's also holds the value of its last read.  ok is FALSE once a call
\* has returned Err.  buf[i] is the byte at offset i - 1.
\* ------------------------------------------------------------------------

\* to_le_bytes of an n-byte integer (two's complement for a negative one).
LeBytes(v, n) == [i \in 1 .. n |-> (v \div (256 ^ (i - 1))) % 256]

\* u16::from_le_bytes.
U16FromLeBytes(b) == b[1] + 256 * b[2]

\* `as i16` of a u16.
AsI16(v) == IF v >= 32768 THEN v - 65536 ELSE v

\* u32::from_le_bytes: a u32 is held as its two 16-bit halves, high first.
U32FromLeBytes(b) == << b[3] + 256 * b[4], b[1] + 256 * b[2] >>

\* to_le_bytes of a u32.
U32LeBytes(v) == LeBytes(v[2], 2) \o LeBytes(v[1], 2)

\* `as i32` of a u32.
AsI32(v) == AsI16(v[1]) * 65536 + v[2]

\* Writer::new.
WriterNew(buf) == [ok |-> TRUE, idx |-> 0, buf |-> buf]

\* A write_bytes that fills the rest of the buffer before it fails.
WriterWriteBytesPartial(w, bytes) ==
    IF w.idx + Len(bytes) > Len(w.buf)
    THEN [ok |-> FALSE, idx |-> Len(w.buf),
          buf |-> [i \in 1 .. Len(w.buf) |->
                      IF i > w.idx THEN bytes[i - w.idx] ELSE w.buf[i]]]
    ELSE [ok |-> TRUE, idx |-> w.idx + Len(bytes),
          buf |-> [i \in 1 .. Len(w.buf) |->
                      IF i > w.idx /\ i <= w.idx + Len(bytes)
                      THEN bytes[i - w.idx] ELSE w.buf[i]]]

\* Writer::write_bytes: the bounds check, then the copy, then the cursor.
WriterWriteBytes(w, bytes) ==
    IF w.idx + Len(bytes) > Len(w.buf)
    THEN [w EXCEPT !.ok = FALSE]
    ELSE [ok |-> TRUE, idx |-> w.idx + Len(bytes),
          buf |-> [i \in 1 .. Len(w.buf) |->
                      IF i > w.idx /\ i <= w.idx + Len(bytes)
                      THEN bytes[i - w.idx] ELSE w.buf[i]]]

WriteU8(w, v) == WriterWriteBytes(w, << v >>)

WriteU16Le(w, v) == WriterWriteBytes(w, LeBytes(v, 2))

WriteI16Le(w, v) == WriterWriteBytes(w, LeBytes(v, 2))

WriteU32Le(w, v) == WriterWriteBytes(w, U32LeBytes(v))

WriteI32Le(w, v) == WriterWriteBytes(w, LeBytes(v, 4))

\* Reader::new.
ReaderNew(buf) == [ok |-> TRUE, idx |-> 0, buf |-> buf, value |-> None]

\* A read_bytes that moves the cursor to the end of the buffer on underflow.
ReaderReadBytesSkipping(r, n) ==
    IF r.idx + n > Len(r.buf)
    THEN [r EXCEPT !.ok = FALSE, !.idx = Len(r.buf), !.value = None]
    ELSE [r EXCEPT !.ok = TRUE, !.idx = r.idx + n,
                   !.value = SubSeq(r.buf, r.idx + 1, r.idx + n)]

\* Reader::read_bytes: the bounds check, then the slice, then the cursor.
ReaderReadBytes(r, n) ==
    IF r.idx + n > Len(r.buf)
    THEN [r EXCEPT !.ok = FALSE, !.value = None]
    ELSE [r EXCEPT !.ok = TRUE, !.idx = r.idx + n,
                   !.value = SubSeq(r.buf, r.idx + 1, r.idx + n)]

\* `f(self.read_bytes(n)?)`: the value of a scalar read.
ReadScalar(r, n, op) ==
    LET read == ReaderReadBytes(r, n)
    IN  IF ~read.ok THEN read
        ELSE [read EXCEPT !.value =
                 CASE op = "read_u8" -> read.value[1]
                   [] op = "read_u16_le" -> U16FromLeBytes(read.value)
                   [] op = "read_i16_le" -> AsI16(U16FromLeBytes(read.value))
                   [] op = "read_u32_le" -> U32FromLeBytes(read.value)
                   [] op = "read_i32_le" -> AsI32(U32FromLeBytes(read.value))]

ReadU8(r) == ReadScalar(r, 1, "read_u8")

ReadU16Le(r) == ReadScalar(r, 2, "read_u16_le")

ReadI16Le(r) == ReadScalar(r, 2, "read_i16_le")

ReadU32Le(r) == ReadScalar(r, 4, "read_u32_le")

ReadI32Le(r) == ReadScalar(r, 4, "read_i32_le")

\* ------------------------------------------------------------------------
\* The specification of the cursors: one read of a Reader or one write of
\* a Writer, at a cursor position idx of a short buffer.
\* ------------------------------------------------------------------------

MaxCursorBuffer == 5

CursorBuffers == UNION {[1 .. n -> {1, 255}] : n \in 0 .. MaxCursorBuffer}

CursorReads == {"read_u8", "read_u16_le", "read_i16_le", "read_u32_le", "read_i32_le"}

CursorWrites ==
    {"write_u8", "write_u16_le", "write_i16_le", "write_u32_le", "write_i32_le",
     "write_bytes"}

\* The arguments a write is called with: the integer of a scalar write, the
\* two halves of a u32, the bytes of a slice.
CursorValues(call) ==
    CASE call = "write_u8" -> {<< 0 >>, << 254 >>}
      [] call = "write_u16_le" -> {<< 258 >>, << 65534 >>}
      [] call = "write_i16_le" -> {<< -2 >>, << 258 >>}
      [] call = "write_u32_le" -> {<< 65534, 258 >>, << 3, 4 >>}
      [] call = "write_i32_le" -> {<< -2 >>, << 100000 >>}
      [] call = "write_bytes" -> {<< >>, << 7 >>, << 7, 8, 9 >>}
      [] OTHER -> {<< >>}

CursorCalls ==
    UNION {{[call |-> call, buf |-> buf, idx |-> idx, value |-> value] :
               idx \in 0 .. Len(buf), value \in CursorValues(call)} :
           call \in CursorReads \cup CursorWrites, buf \in CursorBuffers}

InitCursor ==
    /\ Constructed
    /\ threads = None
    /\ codec \in [op : {"cursor"}, input : CursorCalls, done : {FALSE}, output : {None}]

\* The cursor after the call.
CursorResult(c) ==
    LET w == [ok |-> TRUE, idx |-> c.idx, buf |-> c.buf]
        r == [ok |-> TRUE, idx |-> c.idx, buf |-> c.buf, value |-> None]
    IN  CASE c.call = "write_u8" -> WriteU8(w, c.value[1])
          [] c.call = "write_u16_le" -> WriteU16Le(w, c.value[1])
          [] c.call = "write_i16_le" -> WriteI16Le(w, c.value[1])
          [] c.call = "write_u32_le" -> WriteU32Le(w, c.value)
          [] c.call = "write_i32_le" -> WriteI32Le(w, c.value[1])
          [] c.call = "write_bytes" -> WriterWriteBytes(w, c.value)
          [] c.call = "read_u8" -> ReadU8(r)
          [] c.call = "read_u16_le" -> ReadU16Le(r)
          [] c.call = "read_i16_le" -> ReadI16Le(r)
          [] c.call = "read_u32_le" -> ReadU32Le(r)
          [] c.call = "read_i32_le" -> ReadI32Le(r)

CursorCall ==
    /\ codec.op = "cursor"
    /\ ~codec.done
    /\ codec' = [codec EXCEPT !.done = TRUE, !.output = CursorResult(codec.input)]
    /\ UNCHANGED << connection_vars, threads >>

NextCursor == CursorCall

SpecCursor == InitCursor /\ [][NextCursor]_vars

\* The bytes a call reads or writes.
CursorWidth(c) ==
    CASE c.call \in {"read_u8", "write_u8"} -> 1
      [] c.call \in {"read_u16_le", "read_i16_le", "write_u16_le", "write_i16_le"} -> 2
      [] c.call \in {"read_u32_le", "read_i32_le", "write_u32_le", "write_i32_le"} -> 4
      [] c.call = "write_bytes" -> Len(c.value)

\* C22: a read of a Reader or a write of a Writer with enough bytes left
\* succeeds and advances the cursor by exactly its width (1, 2, 4 or the
\* length of the slice); with fewer bytes left it is an error and leaves
\* the cursor and the buffer as they were.
C22_CursorAtomic ==
    (codec.op = "cursor" /\ codec.done) =>
        IF codec.input.idx + CursorWidth(codec.input) <= Len(codec.input.buf)
        THEN /\ codec.output.ok
             /\ codec.output.idx = codec.input.idx + CursorWidth(codec.input)
        ELSE /\ ~codec.output.ok
             /\ codec.output.idx = codec.input.idx
             /\ codec.output.buf = codec.input.buf

\* write_i32_le has failed with three bytes left in the buffer.
C22_Witness ==
    /\ codec.op = "cursor"
    /\ codec.done
    /\ codec.input.call = "write_i32_le"
    /\ Len(codec.input.buf) - codec.input.idx = 3
    /\ ~codec.output.ok

\* The integers are little-endian two's complement: write_i32_le(-2) writes
\* FE FF FF FF, and read_i32_le reads FF FF FF FF as -1.
LittleEndianTwosComplement ==
    (codec.op = "cursor" /\ codec.done /\ codec.output.ok) =>
        /\ (codec.input.call = "write_i32_le" /\ codec.input.value = << -2 >>) =>
               SubSeq(codec.output.buf, codec.input.idx + 1, codec.input.idx + 4)
                   = << 254, 255, 255, 255 >>
        /\ (codec.input.call = "write_i32_le" /\ codec.input.value = << 100000 >>) =>
               SubSeq(codec.output.buf, codec.input.idx + 1, codec.input.idx + 4)
                   = << 160, 134, 1, 0 >>
        /\ (codec.input.call = "read_i32_le"
              /\ SubSeq(codec.input.buf, codec.input.idx + 1, codec.input.idx + 4)
                     = << 255, 255, 255, 255 >>) =>
               codec.output.value = -1
        /\ (codec.input.call = "read_i16_le"
              /\ SubSeq(codec.input.buf, codec.input.idx + 1, codec.input.idx + 2)
                     = << 1, 255 >>) =>
               codec.output.value = -255

\* ------------------------------------------------------------------------
\* MotionCommand::write_to, byte by byte.
\* ------------------------------------------------------------------------

\* Command::id.
CommandId(command) ==
    CASE command.id = "NoOperation" -> 0
      [] command.id = "VaiGoToPos" -> 16
      [] command.id = "VaiIncrementDemPos" -> 17
      [] command.id = "VaiStop" -> 23
      [] command.id = "PStreamWithDriveGeneratedTimeStamp" -> 48
      [] command.id = "PvStreamWithDriveGeneratedTimeStamp" -> 49
      [] command.id = "PStreamWithDriveGeneratedTimeStampAndConfiguredPeriodTime" -> 50
      [] command.id = "PvStreamWithDriveGeneratedTimeStampAndConfiguredPeriodTime" -> 51
      [] command.id = "PvaStreamWithDriveGeneratedTimeStamp" -> 52
      [] command.id = "PvaStreamWithDriveGeneratedTimeStampAndConfiguredPeriodTime" -> 53
      [] command.id = "PvaStreamWithControllerGeneratedTimeStamp" -> 58
      [] command.id = "StopStream" -> 63

\* The parameters Command::write_parameters writes, in its order; each is
\* an i32.
CommandParameters(command) ==
    CASE command.id \in {"NoOperation", "StopStream"} -> << >>
      [] command.id = "VaiGoToPos" ->
             << command.target_position, command.maximal_velocity,
                command.acceleration, command.deceleration >>
      [] command.id = "VaiIncrementDemPos" ->
             << command.position_increment, command.maximal_velocity,
                command.acceleration, command.deceleration >>
      [] command.id = "VaiStop" -> << command.deceleration >>
      [] command.id \in {"PStreamWithDriveGeneratedTimeStamp",
                         "PStreamWithDriveGeneratedTimeStampAndConfiguredPeriodTime"} ->
             << command.position >>
      [] command.id \in {"PvStreamWithDriveGeneratedTimeStamp",
                         "PvStreamWithDriveGeneratedTimeStampAndConfiguredPeriodTime"} ->
             << command.position, command.velocity >>
      [] command.id \in {"PvaStreamWithDriveGeneratedTimeStamp",
                         "PvaStreamWithDriveGeneratedTimeStampAndConfiguredPeriodTime",
                         "PvaStreamWithControllerGeneratedTimeStamp"} ->
             << command.position, command.velocity, command.acceleration >>

\* Command::write_parameters: each `write_to(w)?` in turn.
RECURSIVE WriteParameters(_, _)
WriteParameters(w, parameters) ==
    IF parameters = << >> \/ ~w.ok THEN w
    ELSE WriteParameters(WriteI32Le(w, Head(parameters)), Tail(parameters))

\* A header that holds the whole count.
MotionCommandHeaderUnmasked(motion_command) ==
    (CommandId(motion_command.command) * 16 + motion_command.count) % 65536

\* (self.command.id() << 4) | u16::from(self.count & 0xF): the two operands
\* of | have no bit in common.
MotionCommandHeader(motion_command) ==
    ((CommandId(motion_command.command) * 16) % 65536) + (motion_command.count % 16)

\* MotionCommand::write_to.
MotionCommandWriteTo(motion_command, w) ==
    LET before == w.idx
        header == WriteU16Le(w, MotionCommandHeader(motion_command))
        parameters ==
            WriteParameters(header, CommandParameters(motion_command.command))
        len == parameters.idx - before
    IN  IF ~parameters.ok THEN parameters
        ELSE IF len > 32 THEN [parameters EXCEPT !.ok = FALSE]
        ELSE IF 32 - len > 0
             THEN WriterWriteBytes(parameters, [i \in 1 .. 32 - len |-> 0])
             ELSE parameters

\* ------------------------------------------------------------------------
\* The specification of MotionCommand::write_to: one command is written at
\* a cursor position idx of a buffer whose bytes are all 238 (0xEE).
\* ------------------------------------------------------------------------

\* The command of test_motion_command_write_to.
GoldenCommand ==
    VaiGoToPos(PositionFromMillimeters(10), VelocityFromMetersPerSecond(1),
               AccelerationFromMetersPerSecondSquared(10),
               AccelerationFromMetersPerSecondSquared(10))

MotionCommands ==
    {GoldenCommand,
     VaiGoToPos(PositionFromMillimeters(-1), VelocityFromMetersPerSecond(2), 1, 255),
     VaiStop(AccelerationFromMetersPerSecondSquared(10)),
     [id |-> "NoOperation"],
     [id |-> "StopStream"],
     [id |-> "VaiIncrementDemPos", position_increment |-> -256,
      maximal_velocity |-> 65536, acceleration |-> 2, deceleration |-> 3],
     [id |-> "PStreamWithDriveGeneratedTimeStamp", position |-> -2147483647],
     [id |-> "PvStreamWithDriveGeneratedTimeStamp", position |-> 5, velocity |-> -5],
     [id |-> "PStreamWithDriveGeneratedTimeStampAndConfiguredPeriodTime",
      position |-> 2147483647],
     [id |-> "PvStreamWithDriveGeneratedTimeStampAndConfiguredPeriodTime",
      position |-> 16777216, velocity |-> -16777216],
     [id |-> "PvaStreamWithDriveGeneratedTimeStamp", position |-> 1, velocity |-> 2,
      acceleration |-> 3],
     [id |-> "PvaStreamWithDriveGeneratedTimeStampAndConfiguredPeriodTime",
      position |-> -1, velocity |-> -2, acceleration |-> -3],
     [id |-> "PvaStreamWithControllerGeneratedTimeStamp", position |-> 256,
      velocity |-> 257, acceleration |-> 258]}

\* The counts of a MotionCommand (a u8).
MotionCommandCounts == {0, 1, 15, 16, 17, 255}

\* The buffers: that of the unit test, one with room after the command,
\* that of Connection, and two that are too short.
MotionCommandBuffers == {32, 40, BUFFER_SIZE, 31, 10}

\* The cursor positions: 0, and those at which Request::to_wire writes the
\* command.
MotionCommandPositions == {0, 8, 10}

InitMotionCommand ==
    /\ Constructed
    /\ threads = None
    /\ codec \in [op : {"motion_command"},
                  input : [command : MotionCommands, count : MotionCommandCounts,
                           len : MotionCommandBuffers, idx : MotionCommandPositions],
                  done : {FALSE}, output : {None}]

MotionCommandCall ==
    /\ codec.op = "motion_command"
    /\ ~codec.done
    /\ codec' = [codec EXCEPT
                   !.done = TRUE,
                   !.output =
                       MotionCommandWriteTo(
                           [count |-> codec.input.count, command |-> codec.input.command],
                           [ok |-> TRUE, idx |-> codec.input.idx,
                            buf |-> [i \in 1 .. codec.input.len |-> 238]])]
    /\ UNCHANGED << connection_vars, threads >>

NextMotionCommand == MotionCommandCall

SpecMotionCommand == InitMotionCommand /\ [][NextMotionCommand]_vars

\* The n bytes of the written buffer from offset `at` of the command block.
Block(at, n) ==
    SubSeq(codec.output.buf, codec.input.idx + at + 1, codec.input.idx + at + n)

\* The i32 of four little-endian bytes.
I32FromLeBytes(b) ==
    b[1] + 256 * b[2] + 65536 * b[3]
    + 16777216 * (IF b[4] >= 128 THEN b[4] - 256 ELSE b[4])

\* The bytes of test_motion_command_write_to.
GoldenBytes ==
    << 0, 1, 160, 134, 1, 0, 64, 66, 15, 0, 64, 66, 15, 0, 64, 66, 15, 0 >>
    \o [i \in 1 .. 14 |-> 0]

\* C21: MotionCommand::write_to with at least 32 bytes left advances the
\* cursor by exactly 32; the block is the little-endian u16
\* (opcode << 4) | (count & 0xF), then the command's parameters as
\* little-endian i32s, then zeros up to 32 bytes; and VaiGoToPos{10 mm,
\* 1 m/s, 10 m/s^2, 10 m/s^2} with count 0 gives the bytes of the LinUDP
\* documentation.
C21_MotionCommandBlock ==
    (codec.op = "motion_command" /\ codec.done
       /\ codec.input.len - codec.input.idx >= 32) =>
        LET parameters == CommandParameters(codec.input.command)
        IN  /\ codec.output.ok
            /\ codec.output.idx = codec.input.idx + 32
            /\ Block(0, 2)[1] + 256 * Block(0, 2)[2]
                   = CommandId(codec.input.command) * 16 + (codec.input.count % 16)
            /\ \A i \in 1 .. Len(parameters) :
                   I32FromLeBytes(Block(2 + 4 * (i - 1), 4)) = parameters[i]
            /\ \A i \in 2 + 4 * Len(parameters) + 1 .. 32 : Block(0, 32)[i] = 0
            /\ (codec.input.command = GoldenCommand /\ codec.input.count = 0) =>
                   Block(0, 32) = GoldenBytes

\* The command of the unit test has been written with count 0 into a
\* buffer of 32 bytes.
C21_Witness ==
    /\ codec.op = "motion_command"
    /\ codec.done
    /\ codec.input.command = GoldenCommand
    /\ codec.input.count = 0
    /\ codec.input.len = 32
    /\ codec.input.idx = 0
    /\ codec.output.ok
    /\ codec.output.buf = GoldenBytes

\* ------------------------------------------------------------------------
\* Request::to_wire into the buffer of Connection.
\* ------------------------------------------------------------------------

\* The place of a field after the two flag words.
FieldOrder(f) ==
    CASE f = "CONTROL_FLAGS" -> 1
      [] f = "MOTION_COMMAND" -> 2
      [] f = "REALTIME_CONFIGURATION" -> 3

\* C23: Request::to_wire into the 64-byte buffer succeeds for every
\* Request; the bytes written are 8 for the two flag words plus 2 for the
\* control flags, 32 for the motion command and 8 for the realtime
\* configuration when present, never more than 64; and the fields follow
\* the flag words in the order control flags, motion command, realtime
\* configuration.
C23_RequestFitsBuffer ==
    (Encoded /\ codec.input.len = BUFFER_SIZE) =>
        /\ codec.output.pos # -1
        /\ codec.output.pos
               = 8 + (IF codec.input.request.control_flags # None THEN 2 ELSE 0)
                   + (IF codec.input.request.motion_command # None THEN 32 ELSE 0)
                   + (IF codec.input.request.realtime_configuration # None
                      THEN 8 ELSE 0)
        /\ codec.output.pos <= BUFFER_SIZE
        /\ \A i, j \in 1 .. Len(codec.output.fields) :
               i < j => FieldOrder(codec.output.fields[i])
                            < FieldOrder(codec.output.fields[j])

\* A Request with its three optional fields has been written into the
\* 64-byte buffer as 50 bytes.
C23_Witness ==
    /\ Encoded
    /\ codec.input.len = BUFFER_SIZE
    /\ codec.input.request.control_flags # None
    /\ codec.input.request.motion_command # None
    /\ codec.input.request.realtime_configuration # None
    /\ codec.output.pos = 50
    /\ codec.output.fields
           = << "CONTROL_FLAGS", "MOTION_COMMAND", "REALTIME_CONFIGURATION" >>

\* ------------------------------------------------------------------------
\* Ticks that do not run the state machine.
\* ------------------------------------------------------------------------

\* C31: a tick taken while no Response is stored sends empty control flags
\* and no motion command and leaves the acknowledge-error latch true and
\* the direction latch at its initial value; and a tick whose stored
\* Response lacks the state or the demand position is the same no-op for
\* the state machine: it sends the control flags as they were and no
\* motion command, and leaves the flags and the two latches as they were.
C31_NoResponseNoOp ==
    [][TickTaken =>
          /\ last_response = None =>
                 /\ Unwrap(request').control_flags = Some({})
                 /\ Unwrap(request').motion_command = None
                 /\ acknowledge_error' = TRUE
                 /\ moving_forwards' = FALSE
          /\ ~Observing =>
                 /\ Unwrap(request').control_flags = Some(control_flags)
                 /\ Unwrap(request').motion_command = None
                 /\ control_flags' = control_flags
                 /\ acknowledge_error' = acknowledge_error
                 /\ moving_forwards' = moving_forwards]_vars

\* The stored Response holds a homed OperationEnabled and no demand
\* position, the stroke is enabled, and the last tick failed, so it was
\* taken on this Response: it has sent no motion command.
C31_Witness ==
    /\ IsSome(last_response)
    /\ IsSome(Unwrap(last_response).state)
    /\ Unwrap(Unwrap(last_response).state).tag = "OperationEnabled"
    /\ Unwrap(Unwrap(last_response).state).homed
    /\ ~IsSome(Unwrap(last_response).demand_position)
    /\ stroke_params.enabled
    /\ tick_result = "recv"
    /\ IsSome(request)
    /\ Unwrap(request).motion_command = None
    /\ control_flags # {}

\* Two ticks have been taken, and failed, before any Response was stored.
NoResponseYet ==
    /\ last_response = None
    /\ loop_message_count = 2
    /\ IsSome(request)
    /\ Unwrap(request).control_flags = Some({})

\* ------------------------------------------------------------------------
\* The direction latch.
\* ------------------------------------------------------------------------

\* d >= a - b over the integers, for i32 values whose difference may leave
\* the i32 range.
AtLeastDifference(d, a, b) ==
    IF SubOverflows(a, b) THEN b > 0 ELSE d >= a - b

\* d <= a + b over the integers, for i32 values whose sum may leave the
\* i32 range.
AtMostSum(d, a, b) ==
    IF AddOverflows(a, b) THEN b > 0 ELSE d <= a + b

\* C32: a planner call with the stroke not stopped sets the latch from
\* forwards to backwards if and only if demand_position >=
\* min(end, stroke_limit) - tolerance, and from backwards to forwards if and
\* only if demand_position <= min(start, stroke_limit) + tolerance; any
\* other tick leaves the latch as it was.
C32_LatchFlipsExactly ==
    [][TickTaken =>
          IF PlannerCalled /\ ~stroke_params.stopped
          THEN IF moving_forwards
               THEN ~moving_forwards' <=>
                        AtLeastDifference(ObservedDemandPosition, ForwardsTarget,
                                          Tolerance)
               ELSE moving_forwards' <=>
                        AtMostSum(ObservedDemandPosition, BackwardsTarget, Tolerance)
          ELSE moving_forwards' = moving_forwards]_vars

\* The same for the calls whose threshold is within the i32 range.
LatchFlipsExactlyInRange ==
    [][TickTaken =>
          IF PlannerCalled /\ ~stroke_params.stopped
          THEN IF moving_forwards
               THEN ~SubOverflows(ForwardsTarget, Tolerance) =>
                        (~moving_forwards' <=>
                             ObservedDemandPosition >= ForwardsTarget - Tolerance)
               ELSE ~AddOverflows(BackwardsTarget, Tolerance) =>
                        (moving_forwards' <=>
                             ObservedDemandPosition <= BackwardsTarget + Tolerance)
          ELSE moving_forwards' = moving_forwards]_vars

\* C32 for a tolerance that is not negative.
LatchFlipsExactlyPositiveTolerance ==
    [][(TickTaken /\ PlannerCalled /\ ~stroke_params.stopped /\ Tolerance >= 0
          /\ moving_forwards)
       => (~moving_forwards' <=>
               AtLeastDifference(ObservedDemandPosition, ForwardsTarget,
                                 Tolerance))]_vars

\* ------------------------------------------------------------------------
\* The specification of the deadlines: the loop of SpecLoop with its
\* Instants kept on one time axis, up to the Instant MaxClock.
\* ------------------------------------------------------------------------

MaxClock == 8

\* What the socket does: the recv times out, or a complete answer arrives.
ClockOutcomes ==
    {[kind |-> "recv_error"], Answer(143, 8, PositionFromMillimeters(-1))}

\* The state of Init; start_loop sets next_tick at the Instant 0.
InitClock ==
    /\ stroke_params = StrokeParamsNew
    /\ last_response = None
    /\ stroke_limits = Limits(InputOne, InputOne, InputOne)
    /\ last_state = PlainState("NotReadyToSwitchOn")
    /\ control_flags = {}
    /\ acknowledge_error = TRUE
    /\ moving_forwards = FALSE
    /\ request = None
    /\ tick_result = "none"
    /\ loop_message_count = 0
    /\ loop_error_history = << >>
    /\ loop_duration_sum = 0
    /\ loop_duration_min = DURATION_MAX
    /\ loop_duration_max = 0
    /\ last_loop_report = 0
    /\ next_tick = LoopInterval
    /\ report = None
    /\ window = << >>
    /\ pc = "running"
    /\ codec = None
    /\ threads = None
    /\ clock = Some([now |-> 0, finished |-> 0, deadline |-> LoopInterval,
                     base |-> LoopInterval, ticks |-> 0])

ClockTick ==
    /\ Unwrap(clock).now <= MaxClock
    /\ \E outcome \in ClockOutcomes, duration \in 0 .. MaxTickDuration,
          oversleep \in Oversleeps :
           LoopIteration(outcome, duration, oversleep)

NextClock == ClockTick

SpecClock == InitClock /\ [][NextClock]_vars

\* The last iteration has taken its tick and the loop goes on.
IterationTaken == pc = "running" /\ IsSome(request)

\* The tick of the last iteration finished at or before its deadline.
OnTime == Unwrap(clock).finished <= Unwrap(clock).deadline

\* The pending deadline next_tick on the axis of clock.
Deadline == Unwrap(clock).now + next_tick

\* C33: after a tick that finished before its deadline the loop has slept
\* until that deadline, and the next deadline is the old one plus one
\* interval, whenever the tick finished; after k on-time ticks in a row
\* from the deadline d the deadline is d + k * interval.
C33_OnTimeKeepsCadence ==
    (IterationTaken /\ OnTime) =>
        /\ Unwrap(clock).now >= Unwrap(clock).deadline
        /\ Unwrap(clock).now <= Unwrap(clock).deadline + MaxOversleep
        /\ Deadline = Unwrap(clock).deadline + LoopInterval
        /\ Deadline = Unwrap(clock).base + Unwrap(clock).ticks * LoopInterval

\* Three on-time ticks in a row, the last of which took longer than no
\* time and finished before its deadline.
C33_Witness ==
    /\ IterationTaken
    /\ OnTime
    /\ Unwrap(clock).ticks = 3
    /\ Unwrap(clock).finished = Unwrap(clock).deadline - 1
    /\ loop_duration_max >= 1
    /\ Deadline = LoopInterval + 3 * LoopInterval

\* C34: after a tick that finished after its deadline the loop has not
\* slept, the next iteration starts at the Instant the tick finished, and
\* the next deadline is that Instant plus one interval.
C34_OverrunRealigns ==
    (IterationTaken /\ ~OnTime) =>
        /\ Unwrap(clock).now = Unwrap(clock).finished
        /\ Deadline = Unwrap(clock).finished + LoopInterval
        /\ next_tick = LoopInterval

\* A tick has finished two after its deadline.
C34_Witness ==
    /\ IterationTaken
    /\ Unwrap(clock).finished = Unwrap(clock).deadline + 2
    /\ Unwrap(clock).now = Unwrap(clock).finished

\* C40: at the start of every iteration the pending deadline is at most
\* one loop interval after the current Instant.
C40_DeadlineWithinInterval ==
    pc = "running" => /\ next_tick <= LoopInterval
                      /\ Deadline <= Unwrap(clock).now + LoopInterval

\* An iteration starts after an on-time tick and a sleep that ended late:
\* its deadline is less than one interval ahead.
C40_Witness ==
    /\ IterationTaken
    /\ OnTime
    /\ Unwrap(clock).now = Unwrap(clock).deadline + 1
    /\ next_tick = LoopInterval - 1

\* ------------------------------------------------------------------------
\* The reporting window.
\* ------------------------------------------------------------------------

\* C35: a report after which the loop goes on resets the window (tick
\* count 0, no errors, duration sum 0, minimum Duration::MAX, maximum 0),
\* and the errors a report counts are those of the ticks since the report
\* before it.
C35_ReportResetsWindow ==
    [][ReportPoint =>
          /\ pc' = "running" =>
                 /\ loop_message_count' = 0
                 /\ loop_error_history' = << >>
                 /\ loop_duration_sum' = 0
                 /\ loop_duration_min' = DURATION_MAX
                 /\ loop_duration_max' = 0
          /\ Unwrap(report').errors = Failures(WindowAfter)
          /\ Unwrap(report').message_count = Len(WindowAfter)]_vars

\* A report has counted one failed tick among two or more, and the window
\* is reset.
C35_Witness ==
    /\ pc = "running"
    /\ IsSome(report)
    /\ Unwrap(report).errors = 1
    /\ Unwrap(report).message_count >= 2
    /\ loop_message_count = 0
    /\ loop_error_history = << >>
    /\ loop_duration_sum = 0
    /\ loop_duration_min = DURATION_MAX
    /\ loop_duration_max = 0

C36_ControlFlagsRange ==
    /\ control_flags \subseteq {"SWITCH_ON", "ERROR_ACKNOWLEDGE", "HOME"}
    /\ ~({"SWITCH_ON", "ERROR_ACKNOWLEDGE"} \subseteq control_flags)
    /\ IsSome(request) =>
           /\ IsSome(SentControlFlags)
           /\ Unwrap(SentControlFlags)
                  \subseteq {"SWITCH_ON", "ERROR_ACKNOWLEDGE", "HOME"}
           /\ ~({"SWITCH_ON", "ERROR_ACKNOWLEDGE"} \subseteq Unwrap(SentControlFlags))

\* ERROR_ACKNOWLEDGE and HOME are set together: the drive left the error
\* for an OperationEnabled that is not homed.
C36_Witness ==
    /\ control_flags = {"ERROR_ACKNOWLEDGE", "HOME"}
    /\ last_state.tag = "OperationEnabled"

\* SWITCH_ON and HOME are set together.
SwitchOnAndHome == control_flags = {"SWITCH_ON", "HOME"}

\* ------------------------------------------------------------------------
\* Failed ticks.
\* ------------------------------------------------------------------------

\* The specification of the failed ticks: the loop with its timing, a
\* drive that answers ReadyToSwitchOn or a homed OperationEnabled with
\* count 15 when the recv does not time out, and the power command of the
\* console.

StaleOutcomes ==
    {[kind |-> "recv_error"],
     Answer(143, 8, PositionFromMillimeters(-1)),
     Answer(143, 2, PositionFromMillimeters(-1))}

StaleTick ==
    \E outcome \in StaleOutcomes, duration \in 0 .. MaxTickDuration,
       oversleep \in Oversleeps :
        LoopIteration(outcome, duration, oversleep)

StaleConsole == ConsoleInput("p", InputOne)

NextStale == StaleTick \/ StaleConsole

SpecStale == Init /\ [][NextStale]_vars

\* What the match of the step's tick makes of the fields.
Matched ==
    EvaluateResponse(last_response, control_flags, acknowledge_error,
                     moving_forwards, stroke_limits, stroke_params)

\* C38: the request of a tick carries the control flags as the match has
\* left them; a tick that fails keeps the control flags, the
\* acknowledge-error latch and the direction latch of its match and leaves
\* the stored Response as it was; and a tick that calls the planner after a
\* failed tick that sent a motion command sends a motion command with the
\* same count again.
C38_FailedTickKeepsChanges ==
    [][TickTaken =>
          /\ Unwrap(request').control_flags = Some(Matched.control_flags)
          /\ Unwrap(request').motion_command = Matched.motion_command
          /\ tick_result' # "ok" =>
                 /\ control_flags' = Matched.control_flags
                 /\ acknowledge_error' = Matched.acknowledge_error
                 /\ moving_forwards' = Matched.moving_forwards
                 /\ last_response' = last_response
          /\ (TickFailed /\ IsSome(request) /\ IsSome(SentMotionCommand)
                /\ PlannerCalled) =>
                 /\ IsSome(SentMotionCommand')
                 /\ Unwrap(SentMotionCommand').count = Unwrap(SentMotionCommand).count]_vars

\* Two ticks in a row have failed, the second has sent a motion command
\* with count 0 on the stored count 15, and the direction latch, false at
\* the start, is set.
C38_Witness ==
    /\ pc = "running"
    /\ TickFailed
    /\ Len(window) >= 2
    /\ window[Len(window)]
    /\ window[Len(window) - 1]
    /\ IsSome(request)
    /\ IsSome(SentMotionCommand)
    /\ Unwrap(SentMotionCommand).count = 0
    /\ Observes("OperationEnabled")
    /\ ObservedDriveState.motion_command_count = 15
    /\ moving_forwards

\* A failed tick has run the match on a stored ReadyToSwitchOn: the latch
\* is cleared and SWITCH_ON is set.
LatchClearedByFailedTick ==
    /\ pc = "running"
    /\ TickFailed
    /\ ~acknowledge_error
    /\ Observes("ReadyToSwitchOn")
    /\ control_flags = {"SWITCH_ON"}
    /\ Len(window) >= 2
    /\ window[Len(window)]

\* ------------------------------------------------------------------------
\* The two Mutexes taken together.
\* ------------------------------------------------------------------------

ThreadNames == {"loop", "console", "hid"}

\* The Mutex whose lock() the thread stands before, if any.
WantedLock(t) ==
    CASE t = "loop" /\ threads.loop \in {"lock_response", "lock_store", "lock_status"}
           -> "response"
      [] t = "loop" /\ threads.loop \in {"lock_params", "lock_print_params"}
           -> "params"
      [] t = "console" /\ threads.console = "lock" -> "params"
      [] t = "hid" /\ threads.hid = "lock_response" -> "response"
      [] t = "hid" /\ threads.hid = "lock" -> "params"
      [] OTHER -> "none"

\* The thread waits in lock() for a guard that is held.
Waits(t) ==
    \/ WantedLock(t) = "params" /\ ~CanLock(threads.params_lock)
    \/ WantedLock(t) = "response" /\ ~CanLock(threads.response_lock)

HoldsGuard(t) == threads.params_lock = t \/ threads.response_lock = t

\* C37: no thread holds the StrokeParams guard and the last-Response guard
\* at the same time, and a thread that holds either guard is never waiting
\* for the other, so that no set of threads waits in a circle on the two.
C37_NeverBothLocks ==
    \A t \in ThreadNames :
        /\ ~(threads.params_lock = t /\ threads.response_lock = t)
        /\ HoldsGuard(t) => ~Waits(t)

\* Both guards are held at once, by different threads: the HID thread
\* builds its report behind the last-Response guard while the console
\* prints behind the StrokeParams guard, and the control loop waits for
\* the StrokeParams to print them in its report.
C37_Witness ==
    /\ threads.response_lock = "hid"
    /\ threads.params_lock = "console"
    /\ threads.loop = "lock_print_params"
    /\ Waits("loop")

=============================================================================
